---- MODULE Spec2Model ----
(***************************************************************************)
(* Document structure pipeline of the research assistant backend:          *)
(*   - docxParser.buildHierarchy        (src/unnamed/part_004, 552-575)    *)
(*   - draftService                     (src/unnamed/part_007)             *)
(*   - docxWriter.generateDocx          (src/unnamed/part_004, 236-338)    *)
(*   - exportService.convertDraftForExport (backend utils/helpers.js)      *)
(*   - contentValidator                 (src/unnamed/part_001)             *)
(*   - docxParser.parseDocxTemplate, validateTemplate                      *)
(*                                      (src/unnamed/part_004, 421-645)    *)
(*   - the table parsers of draftService and docxWriter                    *)
(*   - the text converters of draftService and docxWriter                  *)
(*   - the sections route               (backend routes/drafts.js, 93-131) *)
(*   - geminiClient.generateContent     (backend ai/geminiClient.js)       *)
(*   - exportService.exportProject      (backend utils/helpers.js)         *)
(*                                                                         *)
(* The specifications that share the module:                               *)
(*   SpecHierarchy  buildHierarchy applied to bounded flat descriptor      *)
(*                  lists;                                                 *)
(*   Spec           one draft row, its handlers run one after the other;   *)
(*   SpecRace       the same handlers split at their awaits (read of the   *)
(*                  row, update of the row) and run by two callers;        *)
(*   SpecExport     generateDocx applied to bounded templates and trees;   *)
(*   SpecProject    the draft handlers together with exportProject;        *)
(*   SpecClean      cleanGeneratedText applied twice to bounded texts;     *)
(*   SpecValidate   parseSectionContent applied to bounded responses;      *)
(*   SpecParse      parseDocxTemplate and validateTemplate applied to      *)
(*                  bounded documents;                                     *)
(*   SpecTable      the two table parsers applied to bounded chunks;       *)
(*   SpecConvert    a generated text through convertContentToProseMirror   *)
(*                  and convertContentToDocx;                              *)
(*   SpecSections   the draft handlers together with the sections route;   *)
(*   SpecUpserts    updateDraftSection alone on a created draft;           *)
(*   SpecGround     validateGrounding applied to bounded texts;            *)
(*   SpecGenerate   generateContent against a service that answers or      *)
(*                  fails;                                                 *)
(*   SpecExports    exportProject against the status of the project.       *)
(***************************************************************************)
EXTENDS Integers, Sequences, FiniteSets, TLC

\* ------------------------------------------------------------------------
\* Bounds of the model
\* ------------------------------------------------------------------------
MaxDesc == 4
MaxLevel == 3
MaxCalls == 3
MaxTemplate == 5
MaxTree == 3
MaxPieces == 3

\* JavaScript null / undefined
Null == "null"

VARIABLES
    \* --- docxParser.buildHierarchy ---
    flatStructure,     \* the flat descriptor list handed to buildHierarchy
    hierarchy,         \* its result
    hpc,               \* "input" before the call, "built" after it
    \* --- the drafts row and the clock ---
    content,           \* drafts.content.content: the section nodes, in order
    section_sources,   \* drafts.section_sources: section id -> provenance entry
    now,               \* the clock new Date() reads; one tick per invocation
    prev, last,        \* history: the two most recently completed invocations
    order,             \* history: section order as the upsert rule prescribes it
    pc, req,           \* SpecRace: each caller's position and pending update
    version,           \* SpecRace history: updates applied to the row so far
    \* --- docxWriter.generateDocx ---
    template,          \* template.structure
    exportDraft,       \* the drafts row exportProject read: content, references
    children,          \* the emitted document elements
    epc,               \* "input" before the call, "written" after it, or the
                       \* message of the error exportProject threw
    status,            \* projects.status
    \* --- pure functions (contentValidator, docxParser, table parsing) ---
    arg,               \* the argument the function is applied to
    ret,               \* what it returned
    fpc                \* "input" before the call, after it "done" or the
                       \* name of the step that was taken

hvars == <<flatStructure, hierarchy, hpc>>
dvars == <<content, section_sources, now, prev, last, order, pc, req, version>>
evars == <<template, exportDraft, children, epc, status>>
fvars == <<arg, ret, fpc>>
vars == <<hvars, dvars, evars, fvars>>

\* ------------------------------------------------------------------------
\* Generic helpers
\* ------------------------------------------------------------------------
Range(s) == {s[i] : i \in 1..Len(s)}

\* {...rec, k: v} of JavaScript
Spread(rec, k, v) == [f \in DOMAIN rec \cup {k} |-> IF f = k THEN v ELSE rec[f]]

\* ------------------------------------------------------------------------
\* docxParser.buildHierarchy
\* ------------------------------------------------------------------------
\* ids as generateId hands them out: distinct, in no relation to positions
DescIds == <<"h3", "h1", "h5", "h2", "h6", "h4">>
Levels == 1..MaxLevel

\* while (stack.length > 0 && stack[top].level > section.level) stack.pop()
RECURSIVE PopStackStrict(_, _)
PopStackStrict(stack, level) ==
    IF Len(stack) > 0 /\ stack[Len(stack)].level > level
    THEN PopStackStrict(SubSeq(stack, 1, Len(stack) - 1), level)
    ELSE stack

\* if (stack.length > 0 && stack[top].level >= section.level) stack.pop()
PopStackOnce(stack, level) ==
    IF Len(stack) > 0 /\ stack[Len(stack)].level >= level
    THEN SubSeq(stack, 1, Len(stack) - 1)
    ELSE stack

\* while (stack.length > 0 && stack[top].level >= section.level) stack.pop()
RECURSIVE PopStack(_, _)
PopStack(stack, level) ==
    IF Len(stack) > 0 /\ stack[Len(stack)].level >= level
    THEN PopStack(SubSeq(stack, 1, Len(stack) - 1), level)
    ELSE stack

\* the body of the for loop, from position i on
RECURSIVE BuildLoop(_, _, _, _)
BuildLoop(flat, i, stack, result) ==
    IF i > Len(flat) THEN result
    ELSE LET section == flat[i]
             st == PopStack(stack, section.level)
             parentId == IF Len(st) > 0 THEN st[Len(st)].id ELSE Null
         IN BuildLoop(flat, i + 1,
                      Append(st, [level |-> section.level, id |-> section.id]),
                      Append(result, Spread(section, "parentId", parentId)))

buildHierarchy(flat) == BuildLoop(flat, 1, <<>>, <<>>)

\* the list parseDocxTemplate collected: order = 1, 2, ..., any levels, and
\* ids that are distinct (a stretch of DescIds starting at any place)
FlatStructure(n, first, lv) ==
    [i \in 1..n |->
       [id |-> DescIds[((first + i - 2) % Len(DescIds)) + 1], level |-> lv[i], order |-> i]]

InitHierarchy ==
    /\ \E n \in 0..MaxDesc, first \in 1..Len(DescIds) :
         \E lv \in [1..n -> Levels] : flatStructure = FlatStructure(n, first, lv)
    /\ hierarchy = <<>>
    /\ hpc = "input"

BuildHierarchy ==
    /\ hpc = "input"
    /\ hierarchy' = buildHierarchy(flatStructure)
    /\ hpc' = "built"
    /\ UNCHANGED flatStructure

\* ------------------------------------------------------------------------
\* draftService: the drafts row
\* ------------------------------------------------------------------------
\* Texts are sequences of characters.
NL == "\n"

\* ids of the descriptors of the project's template
SectionIds == {"s1", "s2"}
\* an id that no template descriptor has
ForeignIds == {"s9"}
\* templateSectionTitle, as the caller takes it from the template section
TitleOf(id) == IF id = "s1" THEN <<"I">> ELSE IF id = "s2" THEN <<"M">> ELSE <<"X">>

\* generated texts handed to updateDraftSection: empty, one paragraph, two
Contents == { <<>>, <<"a">>, <<"b", NL, NL, "c">> }
WarningLists == { <<>>, <<"short">> }
\* sourceRefs of a generated text: none for the empty text (<<>> stands for
\* undefined and for [] alike, both give [] below), one document otherwise
SourceRefsOf(text) ==
    IF Len(text) = 0 THEN <<>>
    ELSE <<[documentId |-> "doc1", sections |-> <<"abstract">>]>>
DraftIds == {"draft1", "missing"}
ProjectIds == {"project1", "other"}

IsSpace(c) == c \in {" ", NL, "\t"}

\* String.prototype.trim
RECURSIVE TrimLeft(_)
TrimLeft(t) == IF Len(t) > 0 /\ IsSpace(t[1]) THEN TrimLeft(Tail(t)) ELSE t
RECURSIVE TrimRight(_)
TrimRight(t) ==
    IF Len(t) > 0 /\ IsSpace(t[Len(t)]) THEN TrimRight(SubSeq(t, 1, Len(t) - 1)) ELSE t
Trim(t) == TrimRight(TrimLeft(t))

\* String.prototype.split('\n\n'): the pieces between successive "\n\n"
\* (cur: what precedes t in the piece being collected)
RECURSIVE SplitParagraphs(_, _)
SplitParagraphs(t, cur) ==
    LET seps == {i \in 1..(Len(t) - 1) : t[i] = NL /\ t[i + 1] = NL}
    IN IF seps = {} THEN <<cur \o t>>
       ELSE LET first == CHOOSE i \in seps : \A k \in seps : i <= k
            IN <<cur \o SubSeq(t, 1, first - 1)>>
                 \o SplitParagraphs(SubSeq(t, first + 2, Len(t)), <<>>)

\* .filter(p => p.trim())
RECURSIVE FilterNonBlank(_)
FilterNonBlank(seq) ==
    IF Len(seq) = 0 THEN <<>>
    ELSE (IF Len(Trim(seq[1])) > 0 THEN <<seq[1]>> ELSE <<>>) \o FilterNonBlank(Tail(seq))

\* the characters of a string literal
Chars(str) == [i \in 1..Len(str) |-> SubSeq(str, i, i)]

Digits == Chars("0123456789")

\* the literal lit stands in t at position i
MatchesExactlyAt(t, i, lit) ==
    /\ i >= 1
    /\ i + Len(lit) - 1 <= Len(t)
    /\ \A k \in 1..Len(lit) : t[i + k - 1] = lit[k]

RECURSIVE SkipDigits(_, _)
SkipDigits(t, i) ==
    IF i <= Len(t) /\ t[i] \in Range(Digits) THEN SkipDigits(t, i + 1) ELSE i

\* .filter(para => para.length > 0)
RECURSIVE FilterNonEmpty(_)
FilterNonEmpty(seq) ==
    IF Len(seq) = 0 THEN <<>>
    ELSE (IF Len(seq[1]) > 0 THEN <<seq[1]>> ELSE <<>>) \o FilterNonEmpty(Tail(seq))

\* seq.filter((p, i) => keep(i)), for the set of kept positions
RECURSIVE KeepPositions(_, _, _)
KeepPositions(seq, i, kept) ==
    IF i > Len(seq) THEN <<>>
    ELSE (IF i \in kept THEN <<seq[i]>> ELSE <<>>) \o KeepPositions(seq, i + 1, kept)

\* text.split(c) for a one-character separator
RECURSIVE Split(_, _)
Split(t, c) ==
    LET seps == {i \in 1..Len(t) : t[i] = c}
    IN IF seps = {} THEN <<t>>
       ELSE LET first == CHOOSE i \in seps : \A k \in seps : i <= k
            IN <<SubSeq(t, 1, first - 1)>> \o Split(SubSeq(t, first + 1, Len(t)), c)

\* text.includes(lit)
Includes(t, lit) == \E i \in 1..Len(t) : MatchesExactlyAt(t, i, lit)

\* seq.map(cell => cell.trim())
TrimAll(seq) == [i \in 1..Len(seq) |-> Trim(seq[i])]

\* tableText.trim().split('\n').filter(line => line.trim())
TableLines(tableText) == FilterNonBlank(Split(Trim(tableText), NL))

\* cell.match(/^-+$/)
IsDashes(cell) == Len(cell) > 0 /\ \A i \in 1..Len(cell) : cell[i] = "-"

\* line.split('|').map(cell => cell.trim()).filter(cell => cell)
CellsOfLine(line) == FilterNonEmpty(TrimAll(Split(line, "|")))

\* one table row of the tree
TableRow(cells, isHeader) ==
    [type |-> "tableRow",
     content |-> [k \in 1..Len(cells) |->
                    [type |-> IF isHeader THEN "tableHeader" ELSE "tableCell",
                     content |-> <<[type |-> "paragraph",
                                    content |-> <<[type |-> "text", text |-> cells[k]]>>]>>]]]

\* the for loop of parseMarkdownTableToNodes, from line i on
RECURSIVE TableRowsFrom(_, _)
TableRowsFrom(lines, i) ==
    IF i > Len(lines) THEN <<>>
    ELSE IF Includes(lines[i], <<"-", "-", "-">>) THEN TableRowsFrom(lines, i + 1)
    ELSE <<TableRow(CellsOfLine(lines[i]), i = 1)>> \o TableRowsFrom(lines, i + 1)

parseMarkdownTableToNodes(tableText) == TableRowsFrom(TableLines(tableText), 1)

\* parseRow of parseMarkdownTable
parseRow(line) ==
    LET cells == TrimAll(Split(line, "|"))
    IN KeepPositions(cells, 1,
                     {k \in 1..Len(cells) : Len(cells[k]) > 0 /\ ~IsDashes(cells[k])})

parseMarkdownTable(tableText) ==
    LET lines == TableLines(tableText)
    IN IF Len(lines) < 2 THEN [null |-> TRUE]
       ELSE LET dataStartIndex == IF Includes(lines[2], <<"-">>) THEN 3 ELSE 2
            IN [headers |-> parseRow(lines[1]),
                rows |-> [k \in 1..(Len(lines) - dataStartIndex + 1) |->
                            parseRow(lines[dataStartIndex + k - 1])]]

TextNode(t) == [type |-> "text", text |-> t]

\* [^*]+ from position i: the position after the run
RECURSIVE SkipNonStar(_, _)
SkipNonStar(t, i) ==
    LET stars == {k \in i..Len(t) : t[k] = "*"}
    IN IF stars = {} THEN Len(t) + 1
       ELSE CHOOSE k \in stars : \A m \in stars : k <= m

\* \*\*([^*]+)\*\* matched at position i: the position after the match,
\* 0 when it does not match there
BoldEndAt(t, i) ==
    IF MatchesExactlyAt(t, i, <<"*", "*">>)
    THEN LET j == SkipNonStar(t, i + 2)
         IN IF j > i + 2 /\ MatchesExactlyAt(t, j, <<"*", "*">>) THEN j + 2 ELSE 0
    ELSE 0

\* \*([^*]+)\* matched at position i
ItalicEndAt(t, i) ==
    IF i <= Len(t) /\ t[i] = "*"
    THEN LET j == SkipNonStar(t, i + 1)
         IN IF j > i + 1 /\ j <= Len(t) THEN j + 1 ELSE 0
    ELSE 0

\* the while loop over the matches of /(\*\*([^*]+)\*\*|\*([^*]+)\*)/g that
\* parseInlineFormatting and parseFormattedText both have, from lastIndex
\* on: the runs as [text, mark], the unmarked text between the matches and
\* after the last one included
RECURSIVE EmphasisRunsFrom(_, _)
EmphasisRunsFrom(t, lastIndex) ==
    LET starts == {i \in lastIndex..Len(t) : BoldEndAt(t, i) > 0 \/ ItalicEndAt(t, i) > 0}
    IN IF starts = {}
       THEN IF lastIndex <= Len(t)
            THEN <<[text |-> SubSeq(t, lastIndex, Len(t)), mark |-> "none"]>>
            ELSE <<>>
       ELSE LET i == CHOOSE k \in starts : \A m \in starts : k <= m
                bold == BoldEndAt(t, i) > 0
                end == IF bold THEN BoldEndAt(t, i) ELSE ItalicEndAt(t, i)
            IN (IF i > lastIndex
                THEN <<[text |-> SubSeq(t, lastIndex, i - 1), mark |-> "none"]>>
                ELSE <<>>)
                 \o <<IF bold
                      THEN [text |-> SubSeq(t, i + 2, end - 3), mark |-> "bold"]
                      ELSE [text |-> SubSeq(t, i + 1, end - 2), mark |-> "italic"]>>
                 \o EmphasisRunsFrom(t, end)

\* the runs, or the whole text as one unmarked run when there is none
EmphasisRuns(text) ==
    LET runs == EmphasisRunsFrom(text, 1)
    IN IF Len(runs) = 0 THEN <<[text |-> text, mark |-> "none"]>> ELSE runs

parseInlineFormatting(text) ==
    LET runs == EmphasisRuns(text)
    IN [k \in 1..Len(runs) |->
          IF runs[k].mark = "none" THEN TextNode(runs[k].text)
          ELSE [type |-> "text", text |-> runs[k].text,
                marks |-> <<[type |-> runs[k].mark]>>]]

ParagraphNode(para) == [type |-> "paragraph", content |-> parseInlineFormatting(Trim(para))]

\* /^[-*]\s/ at position i
IsBulletAt(t, i) == i + 1 <= Len(t) /\ t[i] \in {"-", "*"} /\ IsSpace(t[i + 1])

\* /^\d+\.\s/ at position i
IsNumberAt(t, i) ==
    LET j == SkipDigits(t, i)
    IN j > i /\ j + 1 <= Len(t) /\ t[j] = "." /\ IsSpace(t[j + 1])

\* the positions ^ matches at under the m flag
LineStarts(t) == {1} \cup {i + 1 : i \in {k \in 1..Len(t) : t[k] = NL}}

\* /^[-*]\s/m.test(para) || /^\d+\.\s/m.test(para)
HasListMarkerOnSomeLine(para) ==
    \E i \in LineStarts(para) : IsBulletAt(para, i) \/ IsNumberAt(para, i)

\* item.replace(/^[-*\d.]\s*/, '').trim()
ListItemText(item) ==
    IF Len(item) > 0 /\ item[1] \in {"-", "*", "."} \cup Range(Digits)
    THEN Trim(SubSeq(item, 2, Len(item)))
    ELSE Trim(item)

ListNode(para) ==
    LET listItems == FilterNonBlank(Split(para, NL))
    IN [type |-> IF IsNumberAt(listItems[1], 1) THEN "orderedList" ELSE "bulletList",
        content |-> [k \in 1..Len(listItems) |->
                       [type |-> "listItem",
                        content |-> <<[type |-> "paragraph",
                                       content |-> <<TextNode(ListItemText(listItems[k]))>>]>>]]]

\* attrs: {} is <<>> here
TableNode(para) ==
    [type |-> "table", attrs |-> <<>>, content |-> parseMarkdownTableToNodes(para)]

\* the body of the for loop of convertContentToProseMirror
ProseMirrorNode(para) ==
    IF Includes(para, <<"|">>) /\ Len(Split(para, NL)) > 1 THEN TableNode(para)
    ELSE IF HasListMarkerOnSomeLine(para) THEN ListNode(para)
    ELSE ParagraphNode(para)

convertContentToProseMirror(text) ==
    IF Len(text) = 0 THEN <<>>
    ELSE LET paragraphs == FilterNonBlank(SplitParagraphs(text, <<>>))
         IN [i \in 1..Len(paragraphs) |-> ProseMirrorNode(paragraphs[i])]

HeadingNode(id, title) ==
    [type |-> "heading", attrs |-> [level |-> 1, id |-> id],
     content |-> <<TextNode(title)>>]

\* the sectionNode literal of updateDraftSection
SectionNode(id, title, text) ==
    [type |-> "section", attrs |-> [id |-> id, title |-> title],
     content |-> <<HeadingNode(id, title)>> \o convertContentToProseMirror(text)]

\* node.attrs?.id
NodeId(node) ==
    IF "attrs" \in DOMAIN node /\ "id" \in DOMAIN node.attrs THEN node.attrs.id ELSE Null

\* Array.prototype.findIndex(node => node.attrs?.id === id): 0 for -1
RECURSIVE FindIndexFrom(_, _, _)
FindIndexFrom(nodes, id, i) ==
    IF i > Len(nodes) THEN 0
    ELSE IF NodeId(nodes[i]) = id THEN i
    ELSE FindIndexFrom(nodes, id, i + 1)
FindIndex(nodes, id) == FindIndexFrom(nodes, id, 1)

\* remove the existing node and append the new one at the end
UpsertContentMoveToEnd(currentContent, sectionNode) ==
    LET existingIndex == FindIndex(currentContent, sectionNode.attrs.id)
    IN IF existingIndex >= 1
       THEN Append(SubSeq(currentContent, 1, existingIndex - 1)
                     \o SubSeq(currentContent, existingIndex + 1, Len(currentContent)),
                   sectionNode)
       ELSE Append(currentContent, sectionNode)

\* the new node takes the place of the whole tree
UpsertContentAlone(currentContent, sectionNode) == <<sectionNode>>

\* "Update content array": replace the first node with that id, or append
UpsertContent(currentContent, sectionNode) ==
    LET existingIndex == FindIndex(currentContent, sectionNode.attrs.id)
    IN IF existingIndex >= 1
       THEN [currentContent EXCEPT ![existingIndex] = sectionNode]
       ELSE Append(currentContent, sectionNode)

\* sourceRefs.flatMap(r => r.sections)
RECURSIVE FlatMapSections(_)
FlatMapSections(refs) ==
    IF Len(refs) = 0 THEN <<>> ELSE refs[1].sections \o FlatMapSections(Tail(refs))

\* the entry literal of "Update section sources"
SourceEntry(sourceRefs, warnings, t) ==
    [sourceDocuments |-> [i \in 1..Len(sourceRefs) |-> sourceRefs[i].documentId],
     sourceSections |-> FlatMapSections(sourceRefs),
     aiGenerated |-> TRUE,
     warnings |-> warnings,
     generatedAt |-> t]

\* { ...old entry, <new fields> }: the new fields laid over the previous entry
UpsertSourcesMerge(sources, id, sourceRefs, warnings, t) ==
    LET new == SourceEntry(sourceRefs, warnings, t)
        old == IF id \in DOMAIN sources THEN sources[id] ELSE new
    IN [k \in DOMAIN sources \cup {id} |->
          IF k = id
          THEN [f \in DOMAIN old \cup DOMAIN new |->
                  IF f \in DOMAIN new THEN new[f] ELSE old[f]]
          ELSE sources[k]]

\* { ...draft.section_sources, [templateSectionId]: { ... } }
UpsertSources(sources, id, sourceRefs, warnings, t) ==
    [k \in DOMAIN sources \cup {id} |->
       IF k = id THEN SourceEntry(sourceRefs, warnings, t) ELSE sources[k]]

\* two updates instead of one: this one carries the content alone
UpsertUpdateContentOnly(draft, id, title, text, sourceRefs, warnings, t) ==
    [content |-> UpsertContent(draft.content, SectionNode(id, title, text)),
     section_sources |-> draft.section_sources]

\* the entry is stored alone, the other sections' entries are not spread in
UpsertUpdateOwnEntryOnly(draft, id, title, text, sourceRefs, warnings, t) ==
    [content |-> UpsertContent(draft.content, SectionNode(id, title, text)),
     section_sources |-> [k \in {id} |-> SourceEntry(sourceRefs, warnings, t)]]

\* what updateDraftSection hands to .update({ content, section_sources }),
\* computed from the draft it read
UpsertUpdate(draft, id, title, text, sourceRefs, warnings, t) ==
    [content |-> UpsertContent(draft.content, SectionNode(id, title, text)),
     section_sources |-> UpsertSources(draft.section_sources, id, sourceRefs, warnings, t)]

\* rebuilds each entry instead of spreading it: warnings and sources are lost
markSectionsAsEditedReset(sectionSources, t) ==
    [k \in DOMAIN sectionSources |->
       [aiGenerated |-> sectionSources[k].aiGenerated,
        manuallyEdited |-> TRUE, lastEditedAt |-> t]]

markSectionsAsEdited(sectionSources, t) ==
    [k \in DOMAIN sectionSources |->
       Spread(Spread(sectionSources[k], "manuallyEdited", TRUE), "lastEditedAt", t)]

\* ------------------------------------------------------------------------
\* Trees the editor sends to PATCH /api/drafts/project/:projectId.  The route
\* checks only that content is present; saveDraftContent stores it as given.
\* ------------------------------------------------------------------------
EditedSection(id) ==
    [type |-> "section", attrs |-> [id |-> id, title |-> TitleOf(id)],
     content |-> <<HeadingNode(id, TitleOf(id)),
                   [type |-> "paragraph", content |-> <<TextNode(<<"e">>)>>]>>]

\* a top-level paragraph, outside any section: it has no attrs
LooseParagraph == [type |-> "paragraph", content |-> <<TextNode(<<"e">>)>>]

EditorTrees(current) ==
    { current,
      <<>>,
      <<LooseParagraph, EditedSection("s1")>>,
      <<EditedSection("s2"), EditedSection("s1")>>,
      <<EditedSection("s1"), EditedSection("s1")>> }

NodeIds(nodes) == [i \in 1..Len(nodes) |-> NodeId(nodes[i])]

\* ------------------------------------------------------------------------
\* Spec: the handlers of one draft row, one invocation after the other
\* ------------------------------------------------------------------------
NoSources == [k \in {} |-> Null]
NoCall == [op |-> "none", ok |-> FALSE]
Brief(call) == [f \in DOMAIN call \ {"before"} |-> call[f]]
Before == [content |-> content, section_sources |-> section_sources]

\* createDraft: content { type: 'doc', content: [] }, section_sources {}
InitDraft ==
    /\ content = <<>>
    /\ section_sources = NoSources
    /\ now = 0
    /\ prev = NoCall
    /\ last = NoCall
    /\ order = <<>>

UpsertCall(id, text, sourceRefs, warnings, t) ==
    [op |-> "upsert", ok |-> TRUE, id |-> id, text |-> text, sourceRefs |-> sourceRefs,
     warnings |-> warnings, at |-> t, before |-> Before]

SaveCall(tree, t) ==
    [op |-> "save", ok |-> TRUE, tree |-> tree, at |-> t, before |-> Before]

Thrown(op, message) == [op |-> op, ok |-> FALSE, error |-> message]

\* what saveDraftContent hands to .update({ content, section_sources })
SaveUpdate(draft, tree, t) ==
    [content |-> tree,
     section_sources |-> markSectionsAsEdited(draft.section_sources, t)]

\* updateDraftSection(draftId, sectionData); dbOk: the update returned no error
UpdateDraftSection(draftId, id, text, sourceRefs, warnings, dbOk) ==
    /\ now < MaxCalls
    /\ now' = now + 1
    /\ prev' = Brief(last)
    /\ IF draftId # "draft1"
       THEN \* getDraftById returned null
            /\ last' = Thrown("upsert", "Draft not found")
            /\ UNCHANGED <<content, section_sources, order>>
       ELSE IF ~dbOk
       THEN /\ last' = Thrown("upsert", "Failed to update draft section")
            /\ UNCHANGED <<content, section_sources, order>>
       ELSE /\ LET update == UpsertUpdate(Before, id, TitleOf(id), text,
                                           sourceRefs, warnings, now')
               IN /\ content' = update.content
                  /\ section_sources' = update.section_sources
            /\ last' = UpsertCall(id, text, sourceRefs, warnings, now')
            /\ order' = IF id \in Range(order) THEN order ELSE Append(order, id)

\* saveDraftContent(projectId, content); dbOk: the update returned no error
SaveDraftContent(projectId, tree, dbOk) ==
    /\ now < MaxCalls
    /\ now' = now + 1
    /\ prev' = Brief(last)
    /\ IF projectId # "project1"
       THEN \* getDraftByProject returned null
            /\ last' = Thrown("save", "No draft found for this project")
            /\ UNCHANGED <<content, section_sources, order>>
       ELSE IF ~dbOk
       THEN /\ last' = Thrown("save", "Failed to save draft")
            /\ UNCHANGED <<content, section_sources, order>>
       ELSE /\ LET update == SaveUpdate(Before, tree, now')
               IN /\ content' = update.content
                  /\ section_sources' = update.section_sources
            /\ last' = SaveCall(tree, now')
            /\ order' = NodeIds(tree)

\* ------------------------------------------------------------------------
\* Values of the variables a specification does not use
\* ------------------------------------------------------------------------
Callers == {1, 2}

IdleHierarchy == flatStructure = <<>> /\ hierarchy = <<>> /\ hpc = "idle"
IdleExport ==
    template = <<>> /\ exportDraft = <<>> /\ children = <<>> /\ epc = "idle" /\ status = "ready"
IdleFn == arg = <<>> /\ ret = <<>> /\ fpc = "idle"
IdleRace == pc = [c \in Callers |-> "idle"] /\ req = [c \in Callers |-> NoCall] /\ version = 0

Init == InitDraft /\ IdleRace /\ IdleHierarchy /\ IdleExport /\ IdleFn

Next ==
    \/ \E draftId \in DraftIds, id \in SectionIds \cup ForeignIds, text \in Contents,
          warnings \in WarningLists, dbOk \in BOOLEAN :
         /\ UpdateDraftSection(draftId, id, text, SourceRefsOf(text), warnings, dbOk)
         /\ UNCHANGED <<pc, req, version, hvars, evars, fvars>>
    \/ \E projectId \in ProjectIds, tree \in EditorTrees(content), dbOk \in BOOLEAN :
         /\ SaveDraftContent(projectId, tree, dbOk)
         /\ UNCHANGED <<pc, req, version, hvars, evars, fvars>>

Spec == Init /\ [][Next]_vars

\* ------------------------------------------------------------------------
\* SpecHierarchy
\* ------------------------------------------------------------------------
IdleDraft == InitDraft /\ IdleRace

InitH == InitHierarchy /\ IdleDraft /\ IdleExport /\ IdleFn

NextH == BuildHierarchy /\ UNCHANGED <<dvars, evars, fvars>>

SpecHierarchy == InitH /\ [][NextH]_vars

\* ------------------------------------------------------------------------
\* Properties of buildHierarchy (SpecHierarchy)
\* ------------------------------------------------------------------------
HasId(res, id) == \E i \in 1..Len(res) : res[i].id = id
DescById(res, id) == res[CHOOSE i \in 1..Len(res) : res[i].id = id]

\* Following parentId from cur: every step reaches a descriptor of strictly
\* lower level that is not start, and the walk ends at parentId null.
RECURSIVE ChainIsProper(_, _, _, _)
ChainIsProper(res, cur, start, fuel) ==
    IF cur.parentId = Null THEN TRUE
    ELSE /\ fuel > 0
         /\ HasId(res, cur.parentId)
         /\ LET parent == DescById(res, cur.parentId)
            IN /\ parent.level < cur.level
               /\ parent.id # start.id
               /\ ChainIsProper(res, parent, start, fuel - 1)

\* C1: for every flat descriptor list (distinct ids, any levels) the parent
\* links buildHierarchy returns form a forest: from every descriptor the
\* parentId chain passes through strictly decreasing levels, ends at a
\* descriptor with parentId null and never comes back to the starting id.
C1_HierarchyIsForest ==
    hpc = "built" =>
      \A i \in 1..Len(hierarchy) :
        ChainIsProper(hierarchy, hierarchy[i], hierarchy[i], Len(hierarchy))

\* a chain of two links, and a later descriptor that falls back to a root
C1_Witness ==
    /\ hpc = "built"
    /\ \E i \in 1..Len(hierarchy) :
         /\ hierarchy[i].parentId # Null
         /\ DescById(hierarchy, hierarchy[i].parentId).parentId # Null
    /\ \E j \in 2..Len(hierarchy) :
         hierarchy[j].parentId = Null /\ hierarchy[j - 1].parentId # Null

\* the id of the nearest descriptor before position i whose level is strictly
\* lower than that of position i, or null
NearestLower(flat, i) ==
    LET lower == {j \in 1..(i - 1) : flat[j].level < flat[i].level}
    IN IF lower = {} THEN Null
       ELSE flat[CHOOSE j \in lower : \A k \in lower : k <= j].id

\* C2: buildHierarchy gives the descriptor at position i the id of the
\* descriptor at the greatest position j < i with a strictly lower level as
\* parentId, and null when no such descriptor precedes it.
C2_ParentIsNearestLower ==
    hpc = "built" =>
      /\ Len(hierarchy) = Len(flatStructure)
      /\ \A i \in 1..Len(hierarchy) :
           /\ hierarchy[i].id = flatStructure[i].id
           /\ hierarchy[i].parentId = NearestLower(flatStructure, i)

\* a parent that is not the immediate predecessor: entries between them were
\* popped; and a descriptor whose predecessors were all popped
C2_Witness ==
    /\ hpc = "built"
    /\ \E i \in 3..Len(hierarchy) :
         /\ hierarchy[i].parentId # Null
         /\ hierarchy[i].parentId # hierarchy[i - 1].id
    /\ \E j \in 3..Len(hierarchy) : hierarchy[j].parentId = Null

\* ------------------------------------------------------------------------
\* Properties of the draft row (Spec)
\* ------------------------------------------------------------------------
Applied(call, op) == call.op = op /\ call.ok

\* positions of the tree whose node carries the id
PositionsOf(nodes, id) == {i \in 1..Len(nodes) : NodeId(nodes[i]) = id}

\* the two most recent invocations were applied upserts of one section id
\* with different texts
UpsertedTwice ==
    /\ Applied(prev, "upsert")
    /\ Applied(last, "upsert")
    /\ prev.id = last.id
    /\ prev.text # last.text

\* the blocks a section node holds for a generated text: its heading, then
\* one paragraph per blank-line-delimited chunk
BlocksFor(id, text) == SectionNode(id, TitleOf(id), text).content

\* C3: after updateDraftSection was called twice in sequence for the same
\* section id with different content, the tree holds exactly one section
\* node for that id, its blocks are those of the second content, and the
\* provenance entry carries the second call's timestamp and warnings.
C3_TwiceLeavesOneNode ==
    UpsertedTwice =>
      /\ Cardinality(PositionsOf(content, last.id)) = 1
      /\ \A i \in PositionsOf(content, last.id) :
           content[i].content = BlocksFor(last.id, last.text)
      /\ last.id \in DOMAIN section_sources
      /\ section_sources[last.id].generatedAt = last.at
      /\ section_sources[last.id].warnings = last.warnings

\* C4: in every state of the draft reachable from createDraft by
\* updateDraftSection and saveDraftContent calls, no two section nodes of
\* the tree carry the same id.
C4_SectionIdsUnique ==
    \A i, j \in 1..Len(content) :
      (i # j /\ NodeId(content[i]) # Null) => NodeId(content[i]) # NodeId(content[j])

\* C5: the section order of the tree is the order the upsert rule
\* prescribes: an upsert of an id the tree does not hold appends it at the
\* end, an upsert of an id it holds changes no position, and only
\* saveDraftContent sets another order; the tree is never re-sorted.
C5_OrderIsInsertionOrder == NodeIds(content) = order

\* s2 was upserted before s1 (the reverse of the template order), no save
\* came in between, and s2, the first node, has just been upserted again
C5_Witness ==
    /\ Applied(last, "upsert")
    /\ last.id = "s2"
    /\ NodeIds(last.before.content) = <<"s2", "s1">>
    /\ \E t1, t2 \in Contents :
         last.before.content =
           <<SectionNode("s2", TitleOf("s2"), t2), SectionNode("s1", TitleOf("s1"), t1)>>
    /\ NodeIds(content) = <<"s2", "s1">>
    /\ content[1] # last.before.content[1]

\* C6: after updateDraftSection(s) the provenance entry of s is the new
\* entry as a whole: aiGenerated true, manuallyEdited not true, the warnings
\* passed with the call, and no field of the previous entry carried over.
C6_UpsertReplacesProvenance ==
    Applied(last, "upsert") =>
      /\ last.id \in DOMAIN section_sources
      /\ LET entry == section_sources[last.id]
         IN /\ DOMAIN entry = {"sourceDocuments", "sourceSections", "aiGenerated",
                               "warnings", "generatedAt"}
            /\ entry.aiGenerated = TRUE
            /\ entry.warnings = last.warnings
            /\ entry.generatedAt = last.at
            /\ Len(entry.sourceDocuments) = Len(last.sourceRefs)
            /\ \A i \in 1..Len(last.sourceRefs) :
                 entry.sourceDocuments[i] = last.sourceRefs[i].documentId

\* the section had been marked manuallyEdited by a save, with other warnings
C6_Witness ==
    /\ Applied(last, "upsert")
    /\ last.id \in DOMAIN last.before.section_sources
    /\ LET old == last.before.section_sources[last.id]
       IN /\ "manuallyEdited" \in DOMAIN old
          /\ old.manuallyEdited = TRUE
          /\ old.warnings # last.warnings

\* C7: saveDraftContent sets manuallyEdited = true and the edit timestamp on
\* every provenance entry that exists at that moment, leaves every other
\* field of each entry as it was, and adds or removes no entry.
C7_SaveMarksEveryEntry ==
    Applied(last, "save") =>
      /\ DOMAIN section_sources = DOMAIN last.before.section_sources
      /\ \A k \in DOMAIN section_sources :
           LET old == last.before.section_sources[k]
               entry == section_sources[k]
           IN /\ DOMAIN entry = DOMAIN old \cup {"manuallyEdited", "lastEditedAt"}
              /\ entry.manuallyEdited = TRUE
              /\ entry.lastEditedAt = last.at
              /\ \A f \in DOMAIN old \ {"manuallyEdited", "lastEditedAt"} :
                   entry[f] = old[f]

\* the save sent back the stored tree unchanged; an entry with warnings that
\* was not yet marked got marked all the same
C7_Witness ==
    /\ Applied(last, "save")
    /\ last.tree = last.before.content
    /\ Len(last.tree) > 0
    /\ \E k \in DOMAIN last.before.section_sources :
         /\ "manuallyEdited" \notin DOMAIN last.before.section_sources[k]
         /\ Len(last.before.section_sources[k].warnings) > 0
         /\ section_sources[k].manuallyEdited = TRUE

\* ------------------------------------------------------------------------
\* SpecRace: two callers, one invocation each, against the same row.  An
\* invocation is cut where the handler awaits: at the read of the row
\* (getDraftById / getDraftByProject; the code up to the update runs on what
\* was read) and at the update of the row, which the store applies as one
\* statement or rejects as a whole.
\* ------------------------------------------------------------------------
\* the row when the callers arrive: as created, or with s1 generated
RaceRows ==
    { [content |-> <<>>, section_sources |-> NoSources, now |-> 0],
      [content |-> <<SectionNode("s1", TitleOf("s1"), <<"a">>)>>,
       section_sources |->
         UpsertSources(NoSources, "s1", SourceRefsOf(<<"a">>), <<"short">>, 1),
       now |-> 1] }

InitRace ==
    /\ \E row \in RaceRows :
         /\ content = row.content
         /\ section_sources = row.section_sources
         /\ now = row.now
    /\ prev = NoCall
    /\ last = NoCall
    /\ order = <<>>
    /\ pc = [c \in Callers |-> "idle"]
    /\ req = [c \in Callers |-> NoCall]
    /\ version = 0

\* updateDraftSection up to the await of the update
StartUpdateDraftSection(c, draftId, id, text, sourceRefs, warnings) ==
    /\ pc[c] = "idle"
    /\ now' = now + 1
    /\ IF draftId # "draft1"
       THEN /\ pc' = [pc EXCEPT ![c] = "done"]
            /\ req' = [req EXCEPT ![c] = Thrown("upsert", "Draft not found")]
       ELSE /\ pc' = [pc EXCEPT ![c] = "updating"]
            /\ req' = [req EXCEPT ![c] =
                 [op |-> "upsert", ok |-> FALSE, id |-> id, text |-> text,
                  sourceRefs |-> sourceRefs, warnings |-> warnings, at |-> now',
                  readV |-> version, wroteV |-> 0,
                  sawIds |-> Range(NodeIds(content)),
                  update |-> UpsertUpdate(Before, id, TitleOf(id), text,
                                          sourceRefs, warnings, now')]]
    /\ UNCHANGED <<content, section_sources, version, prev, last, order>>

\* saveDraftContent up to the await of the update
StartSaveDraftContent(c, projectId, tree) ==
    /\ pc[c] = "idle"
    /\ now' = now + 1
    /\ IF projectId # "project1"
       THEN /\ pc' = [pc EXCEPT ![c] = "done"]
            /\ req' = [req EXCEPT ![c] =
                 Thrown("save", "No draft found for this project")]
       ELSE /\ pc' = [pc EXCEPT ![c] = "updating"]
            /\ req' = [req EXCEPT ![c] =
                 [op |-> "save", ok |-> FALSE, tree |-> tree, at |-> now',
                  readV |-> version, wroteV |-> 0,
                  sawIds |-> Range(NodeIds(content)),
                  update |-> SaveUpdate(Before, tree, now')]]
    /\ UNCHANGED <<content, section_sources, version, prev, last, order>>

\* the store answers the pending .update(...): applied whole, or an error
\* (the handler then throws and nothing was written)
DbUpdate(c, dbOk) ==
    /\ pc[c] = "updating"
    /\ pc' = [pc EXCEPT ![c] = "done"]
    /\ IF dbOk
       THEN /\ content' = req[c].update.content
            /\ section_sources' = req[c].update.section_sources
            /\ version' = version + 1
            /\ req' = [req EXCEPT ![c].ok = TRUE, ![c].wroteV = version + 1]
       ELSE /\ req' = req
            /\ UNCHANGED <<content, section_sources, version>>
    /\ UNCHANGED <<now, prev, last, order>>

NextRace ==
    \/ \E c \in Callers, draftId \in DraftIds, id \in SectionIds, text \in Contents,
          warnings \in WarningLists :
         /\ StartUpdateDraftSection(c, draftId, id, text, SourceRefsOf(text), warnings)
         /\ UNCHANGED <<hvars, evars, fvars>>
    \/ \E c \in Callers, projectId \in ProjectIds, tree \in EditorTrees(content) :
         /\ StartSaveDraftContent(c, projectId, tree)
         /\ UNCHANGED <<hvars, evars, fvars>>
    \/ \E c \in Callers, dbOk \in BOOLEAN :
         /\ DbUpdate(c, dbOk)
         /\ UNCHANGED <<hvars, evars, fvars>>

InitR == InitRace /\ IdleHierarchy /\ IdleExport /\ IdleFn

SpecRace == InitR /\ [][NextRace]_vars

\* ------------------------------------------------------------------------
\* Properties of concurrent invocations (SpecRace)
\* ------------------------------------------------------------------------
\* what a row holds for a section id: the blocks of its node (the first
\* node with the id, the one updateDraftSection replaces) and its entry
StoredFor(nodes, sources, id) ==
    [node |-> IF FindIndex(nodes, id) = 0 THEN [present |-> FALSE]
              ELSE [present |-> TRUE, blocks |-> nodes[FindIndex(nodes, id)].content],
     entry |-> IF id \in DOMAIN sources THEN [present |-> TRUE, value |-> sources[id]]
               ELSE [present |-> FALSE]]

\* what an upsert invocation is to leave for its section id
NewFor(call) ==
    [node |-> [present |-> TRUE, blocks |-> BlocksFor(call.id, call.text)],
     entry |-> [present |-> TRUE,
                value |-> [sourceDocuments |->
                             [i \in 1..Len(call.sourceRefs) |->
                                call.sourceRefs[i].documentId],
                           sourceSections |-> FlatMapSections(call.sourceRefs),
                           aiGenerated |-> TRUE,
                           warnings |-> call.warnings,
                           generatedAt |-> call.at]]]

IsUpsert(call) == call.op = "upsert" /\ "id" \in DOMAIN call

\* C8: an upsert of section s is atomic in the stored row: no step of the
\* invocation, the failing update included, leaves for s anything but what
\* the row held for s before the step (blocks and entry both) or the
\* complete new block list together with the new entry.
C8_UpsertIsAtomic ==
    [][ \A c \in Callers, s \in SectionIds :
          (pc'[c] # pc[c] /\ IsUpsert(req'[c]) /\ req'[c].id = s) =>
             \/ StoredFor(content', section_sources', s)
                  = StoredFor(content, section_sources, s)
             \/ StoredFor(content', section_sources', s) = NewFor(req'[c]) ]_vars

\* one caller's update of a section was rejected, the other caller's update
\* of the same section was applied, and the section existed before
C8_Witness ==
    \E c, d \in Callers :
      /\ c # d
      /\ pc[c] = "done" /\ pc[d] = "done"
      /\ IsUpsert(req[c]) /\ ~req[c].ok
      /\ IsUpsert(req[d]) /\ req[d].ok
      /\ req[c].id = req[d].id
      /\ req[c].id \in req[c].sawIds
      /\ req[c].text # req[d].text
      /\ StoredFor(content, section_sources, req[d].id) = NewFor(req[d])

BothApplied(c, d) ==
    /\ c # d
    /\ pc[c] = "done" /\ pc[d] = "done"
    /\ IsUpsert(req[c]) /\ req[c].ok
    /\ IsUpsert(req[d]) /\ req[d].ok
    /\ req[c].id # req[d].id

HoldsSection(id) == id \in Range(NodeIds(content)) /\ id \in DOMAIN section_sources

\* C9: of two applied upserts on different section ids, when the second
\* read the row after the first had written both sections and both entries
\* are stored; when both read the row before either wrote, the section of
\* the first writer (not in the row the second had read) is lost from the
\* tree and from the provenance map.
C9_RaceLosesSerialKeeps ==
    \A c, d \in Callers :
      BothApplied(c, d) =>
        /\ req[d].readV >= req[c].wroteV =>
             HoldsSection(req[c].id) /\ HoldsSection(req[d].id)
        /\ ( /\ req[d].readV < req[c].wroteV
             /\ req[c].wroteV < req[d].wroteV
             /\ req[c].id \notin req[d].sawIds ) =>
             /\ req[c].id \notin Range(NodeIds(content))
             /\ req[c].id \notin DOMAIN section_sources
             /\ HoldsSection(req[d].id)

\* both callers read the row before either wrote; only one section is kept
C9_Witness ==
    \E c, d \in Callers :
      /\ BothApplied(c, d)
      /\ req[c].readV = 0 /\ req[d].readV = 0
      /\ ~HoldsSection(req[c].id)
      /\ HoldsSection(req[d].id)
      /\ Len(content) = 1
      /\ DOMAIN section_sources = {req[d].id}

\* ------------------------------------------------------------------------
\* exportService.convertDraftForExport and docxWriter.generateDocx
\* ------------------------------------------------------------------------
HasAttr(node, a) == "attrs" \in DOMAIN node /\ a \in DOMAIN node.attrs

\* extractHeadingText
RECURSIVE FirstHeadingFrom(_, _)
FirstHeadingFrom(blocks, i) ==
    IF i > Len(blocks) THEN <<>>
    ELSE IF blocks[i].type = "heading" THEN <<blocks[i]>>
    ELSE FirstHeadingFrom(blocks, i + 1)

extractHeadingText(node) ==
    LET found == IF "content" \in DOMAIN node THEN FirstHeadingFrom(node.content, 1)
                 ELSE <<>>
    IN IF /\ Len(found) > 0
          /\ "content" \in DOMAIN found[1]
          /\ Len(found[1].content) > 0
          /\ "text" \in DOMAIN found[1].content[1]
          /\ Len(found[1].content[1].text) > 0
       THEN found[1].content[1].text
       ELSE <<"Untitled Section">>

\* extractText of extractSectionText: the text parts n contributes
RECURSIVE ExtractTextParts(_)
RECURSIVE ExtractTextPartsOfAll(_)
ExtractTextParts(n) ==
    IF n.type = "text" THEN n.text
    ELSE IF n.type = "heading" THEN <<>>
    ELSE IF "content" \in DOMAIN n
         THEN ExtractTextPartsOfAll(n.content)
                \o (IF n.type = "paragraph" THEN <<NL, NL>> ELSE <<>>)
    ELSE <<>>
ExtractTextPartsOfAll(ns) ==
    IF Len(ns) = 0 THEN <<>> ELSE ExtractTextParts(ns[1]) \o ExtractTextPartsOfAll(Tail(ns))

\* only the first block after the heading is read
extractSectionTextFirstBlock(node) ==
    IF "content" \in DOMAIN node /\ Len(node.content) > 1
    THEN Trim(ExtractTextParts(node.content[2]))
    ELSE <<>>

\* extractSectionText: textParts.join('').trim()
extractSectionText(node) ==
    IF "content" \in DOMAIN node THEN Trim(ExtractTextPartsOfAll(node.content)) ELSE <<>>

\* convertDraftForExport: one entry per node that is a section or has an id
RECURSIVE ExportSections(_)
ExportSections(nodes) ==
    IF Len(nodes) = 0 THEN <<>>
    ELSE LET node == nodes[1]
         IN (IF node.type = "section" \/ NodeId(node) # Null
             THEN <<[templateSectionId |-> NodeId(node),
                     templateSectionTitle |->
                       IF HasAttr(node, "title") /\ Len(node.attrs.title) > 0
                       THEN node.attrs.title ELSE extractHeadingText(node),
                     content |-> extractSectionText(node)]>>
             ELSE <<>>) \o ExportSections(Tail(nodes))

convertDraftForExport(draft) ==
    [sections |-> ExportSections(draft.content), references |-> draft.references]

\* parseFormattedText: the same loop as parseInlineFormatting, the runs as
\* TextRun options
parseFormattedText(text) ==
    LET runs == EmphasisRuns(text)
    IN [k \in 1..Len(runs) |->
          IF runs[k].mark = "none" THEN [text |-> runs[k].text]
          ELSE IF runs[k].mark = "bold" THEN [text |-> runs[k].text, bold |-> TRUE]
          ELSE [text |-> runs[k].text, italics |-> TRUE]]

\* createParagraph(text, { alignment })
createParagraph(text, alignment) ==
    [kind |-> "paragraph", children |-> parseFormattedText(text), alignment |-> alignment]

\* createHeading(text, level)
createHeading(text, level) == [kind |-> "heading", text |-> text, level |-> level]

\* createTable: the header row when there are headers, then the data rows
createTable(tableData) ==
    [kind |-> "table",
     rows |-> (IF Len(tableData.headers) > 0
               THEN <<[cells |-> tableData.headers, tableHeader |-> TRUE]>>
               ELSE <<>>)
                \o [k \in 1..Len(tableData.rows) |-> [cells |-> tableData.rows[k]]]]

\* the bullet paragraphs of the items of a list chunk, from item i on
RECURSIVE BulletParagraphsFrom(_, _)
BulletParagraphsFrom(listItems, i) ==
    IF i > Len(listItems) THEN <<>>
    ELSE LET text == ListItemText(listItems[i])
         IN (IF Len(text) > 0
             THEN <<[kind |-> "paragraph", children |-> parseFormattedText(text),
                     bullet |-> [level |-> 0]]>>
             ELSE <<>>) \o BulletParagraphsFrom(listItems, i + 1)

\* the body of the for loop of convertContentToDocx: the elements of a chunk
DocxElements(para) ==
    LET trimmed == Trim(para)
        tableData == IF Includes(trimmed, <<"|">>) /\ Len(Split(trimmed, NL)) > 1
                     THEN parseMarkdownTable(trimmed)
                     ELSE [null |-> TRUE]
    IN IF "headers" \in DOMAIN tableData THEN <<createTable(tableData)>>
       ELSE IF IsBulletAt(trimmed, 1) \/ IsNumberAt(trimmed, 1)
       THEN BulletParagraphsFrom(Split(trimmed, NL), 1)
       ELSE <<createParagraph(trimmed, "justified")>>

RECURSIVE DocxElementsOfAll(_)
DocxElementsOfAll(paragraphs) ==
    IF Len(paragraphs) = 0 THEN <<>>
    ELSE DocxElements(paragraphs[1]) \o DocxElementsOfAll(Tail(paragraphs))

convertContentToDocx(text) ==
    DocxElementsOfAll(FilterNonBlank(SplitParagraphs(text, <<>>)))

PlaceholderText == <<"[Content not yet generated]">>

\* draft.sections.find(s => s.templateSectionId === id ||
\*                          s.templateSectionTitle === title): <<>> for undefined
RECURSIVE FindDraftSection(_, _)
FindDraftSection(sections, templateSection) ==
    IF Len(sections) = 0 THEN <<>>
    ELSE IF \/ sections[1].templateSectionId = templateSection.id
            \/ sections[1].templateSectionTitle = templateSection.title
         THEN <<sections[1]>>
         ELSE FindDraftSection(Tail(sections), templateSection)

\* the heading is pushed only for sections found in the draft
SectionElementsSkipMissing(sections, templateSection) ==
    LET found == FindDraftSection(sections, templateSection)
    IN IF Len(found) > 0 /\ Len(found[1].content) > 0
       THEN <<createHeading(templateSection.title, templateSection.level)>>
              \o convertContentToDocx(found[1].content)
       ELSE <<>>

\* one pass of the loop "Process each section from template structure"
SectionElements(sections, templateSection) ==
    LET found == FindDraftSection(sections, templateSection)
    IN <<createHeading(templateSection.title, templateSection.level)>>
         \o (IF Len(found) > 0 /\ Len(found[1].content) > 0
             THEN convertContentToDocx(found[1].content)
             ELSE <<createParagraph(PlaceholderText, "left")>>)

RECURSIVE TemplateElements(_, _)
TemplateElements(sections, structure) ==
    IF Len(structure) = 0 THEN <<>>
    ELSE SectionElements(sections, structure[1])
           \o TemplateElements(sections, Tail(structure))

\* "Add references section"
ReferenceElements(references, includeReferences) ==
    IF includeReferences /\ Len(references) > 0
    THEN <<[kind |-> "pageBreak"], createHeading(<<"References">>, 1)>>
           \o [i \in 1..Len(references) |->
                 [kind |-> "reference", index |-> i, text |-> references[i]]]
    ELSE <<>>

\* the children of the document generateDocx packs
generateDocx(draft, structure, title, includeReferences) ==
    <<[kind |-> "title", text |-> title]>>
      \o TemplateElements(draft.sections, structure)
      \o ReferenceElements(draft.references, includeReferences)

\* ------------------------------------------------------------------------
\* SpecExport: generateDocx on bounded templates and trees
\* ------------------------------------------------------------------------
\* descriptor ids, by position in the template
TemplateIds == <<"t1", "t2", "t3", "t4", "t5", "t6", "t7">>
TemplateLevels == <<1, 2, 2, 1, 2, 3, 1>>
\* titles: all different, or alternating between two
TemplateTitleSchemes ==
    { <<"A", "B", "C", "D", "E", "F", "G">>, <<"A", "B", "A", "B", "A", "B", "A">> }

Templates ==
    { [i \in 1..n |-> [id |-> TemplateIds[i], level |-> TemplateLevels[i],
                       title |-> <<titles[i]>>, order |-> i]] :
        n \in 0..MaxTemplate, titles \in TemplateTitleSchemes }

\* section nodes of the tree: ids of the template or foreign to it, in any
\* order and number, empty or populated
ExportNodes ==
    { SectionNode(id, v.title, v.text) :
        id \in {"t1", "t2", "t3", "t9"},
        v \in { [title |-> <<"A">>, text |-> <<"a">>], [title |-> <<"B">>, text |-> <<>>] } }

ExportReferences == { <<>>, <<"Doe 2020">> }

InitExport ==
    /\ template \in Templates
    /\ \E n \in 0..MaxTree, references \in ExportReferences :
         \E tree \in [1..n -> ExportNodes] :
           exportDraft = [content |-> tree, references |-> references]
    /\ children = <<>>
    /\ epc = "input"
    /\ status = "ready"

\* exportProject: convertDraftForExport, then generateDocx with the defaults
GenerateDocx ==
    /\ epc = "input"
    /\ children' = generateDocx(convertDraftForExport(exportDraft), template,
                                <<"Report">>, TRUE)
    /\ epc' = "written"
    /\ UNCHANGED <<template, exportDraft, status>>

InitE == InitExport /\ IdleDraft /\ IdleHierarchy /\ IdleFn

NextE == GenerateDocx /\ UNCHANGED <<hvars, dvars, fvars>>

SpecExport == InitE /\ [][NextE]_vars

\* ------------------------------------------------------------------------
\* SpecProject: one project with its draft row and its template; the draft
\* handlers and exportProject run one after the other
\* ------------------------------------------------------------------------
\* the structure of the project's template: one descriptor per section id
ProjectTemplate ==
    <<[id |-> "s1", level |-> 1, title |-> TitleOf("s1"), order |-> 1],
      [id |-> "s2", level |-> 2, title |-> TitleOf("s2"), order |-> 2]>>

InitProject ==
    /\ template = ProjectTemplate
    /\ exportDraft = <<>>
    /\ children = <<>>
    /\ epc = "input"
    /\ status = "ready"       \* the generation run is over

\* refuses the export of a draft that carries warnings
ExportProjectBlocksOnWarnings(projectId, storeOk) ==
    IF \E k \in DOMAIN section_sources : Len(section_sources[k].warnings) > 0
    THEN /\ epc' = "Draft has warnings"
         /\ UNCHANGED <<template, exportDraft, children, status>>
    ELSE /\ epc' = IF storeOk THEN "written" ELSE "Failed to create export record"
         /\ exportDraft' = [content |-> content, references |-> <<>>]
         /\ children' = IF storeOk
                         THEN generateDocx(convertDraftForExport(exportDraft'), template,
                                           <<"Report">>, TRUE)
                         ELSE children
         /\ status' = IF storeOk THEN "exported" ELSE status
         /\ UNCHANGED template

\* leaves the status of the project as it was after the export
ExportProjectKeepsStatus(projectId, storeOk) ==
    IF projectId # "project1"
    THEN /\ epc' = "Project not found"
         /\ UNCHANGED <<template, exportDraft, children, status>>
    ELSE IF status # "ready"
    THEN /\ epc' = "Project must be in ready status to export"
         /\ UNCHANGED <<template, exportDraft, children, status>>
    ELSE LET draft == [content |-> content, references |-> <<>>]
         IN /\ exportDraft' = draft
            /\ IF storeOk
               THEN /\ children' = generateDocx(convertDraftForExport(draft), template,
                                                <<"Report">>, TRUE)
                    /\ epc' = "written"
               ELSE /\ epc' = "Failed to create export record"
                    /\ UNCHANGED children
            /\ UNCHANGED <<template, status>>

\* exportProject(projectId, userId); storeOk: the upload to storage and the
\* insert of the exports record returned no error.  The project of this
\* specification has its draft, so getDraftByProject returns the row.
ExportProject(projectId, storeOk) ==
    IF projectId # "project1"
    THEN /\ epc' = "Project not found"
         /\ UNCHANGED <<template, exportDraft, children, status>>
    ELSE IF status # "ready"
    THEN /\ epc' = "Project must be in ready status to export"
         /\ UNCHANGED <<template, exportDraft, children, status>>
    ELSE LET draft == [content |-> content, references |-> <<>>]
         IN /\ exportDraft' = draft
            /\ IF storeOk
               THEN /\ children' = generateDocx(convertDraftForExport(draft), template,
                                                <<"Report">>, TRUE)
                    /\ status' = "exported"
                    /\ epc' = "written"
               ELSE /\ epc' = "Failed to create export record"
                    /\ UNCHANGED <<children, status>>
            /\ UNCHANGED template

InitP == InitDraft /\ IdleRace /\ IdleHierarchy /\ InitProject /\ IdleFn

\* the generation run stores sections of the template with or without
\* warnings; the editor saves the tree it shows, or one with a section removed
NextP ==
    \/ \E id \in SectionIds, warnings \in WarningLists, dbOk \in BOOLEAN :
         /\ UpdateDraftSection("draft1", id, <<"a">>, SourceRefsOf(<<"a">>), warnings, dbOk)
         /\ UNCHANGED <<pc, req, version, hvars, evars, fvars>>
    \/ \E tree \in {content, <<LooseParagraph, EditedSection("s1")>>}, dbOk \in BOOLEAN :
         /\ SaveDraftContent("project1", tree, dbOk)
         /\ UNCHANGED <<pc, req, version, hvars, evars, fvars>>
    \/ \E projectId \in ProjectIds, storeOk \in BOOLEAN :
         /\ ExportProject(projectId, storeOk)
         /\ UNCHANGED <<hvars, dvars, fvars>>

SpecProject == InitP /\ [][NextP]_vars

\* ------------------------------------------------------------------------
\* Properties of the export (SpecExport)
\* ------------------------------------------------------------------------
RECURSIVE SelectKind(_, _)
SelectKind(elements, kind) ==
    IF Len(elements) = 0 THEN <<>>
    ELSE (IF elements[1].kind = kind THEN <<elements[1]>> ELSE <<>>)
           \o SelectKind(Tail(elements), kind)

\* the elements before the page break that opens the references, i.e. the
\* title and what the template loop emitted
RECURSIVE BeforePageBreak(_)
BeforePageBreak(elements) ==
    IF Len(elements) = 0 \/ elements[1].kind = "pageBreak" THEN <<>>
    ELSE <<elements[1]>> \o BeforePageBreak(Tail(elements))

SectionHeadings == SelectKind(BeforePageBreak(children), "heading")

\* C10: whatever sections the tree holds and in whatever order, the export
\* emits exactly one section heading per template descriptor, in template
\* order, each with the descriptor's title and level (so 5 headings for a
\* template of 5 descriptors with 3 populated sections); the only other
\* heading is that of the references.
C10_OneHeadingPerDescriptor ==
    epc = "written" =>
      /\ Len(SectionHeadings) = Len(template)
      /\ \A i \in 1..Len(template) :
           /\ SectionHeadings[i].text = template[i].title
           /\ SectionHeadings[i].level = template[i].level
      /\ Len(SelectKind(children, "heading"))
           = Len(template) + (IF Len(exportDraft.references) > 0 THEN 1 ELSE 0)

\* five descriptors; the tree holds populated sections for three of them,
\* in another order than the template's; five section headings came out
C10_Witness ==
    /\ epc = "written"
    /\ Len(template) = 5
    /\ NodeIds(exportDraft.content) = <<"t3", "t1", "t2">>
    /\ \A i \in 1..3 : Len(exportDraft.content[i].content) > 1
    /\ Len(SectionHeadings) = 5
    /\ Len(exportDraft.references) > 0

\* positions of the section headings among the children (before the page
\* break of the references)
RECURSIVE HeadingPositionsFrom(_, _)
HeadingPositionsFrom(elements, i) ==
    IF i > Len(elements) \/ elements[i].kind = "pageBreak" THEN <<>>
    ELSE (IF elements[i].kind = "heading" THEN <<i>> ELSE <<>>)
           \o HeadingPositionsFrom(elements, i + 1)

IsPlaceholder(element) == element = createParagraph(PlaceholderText, "left")

\* the tree holds a section node with this id whose text is not empty
PopulatedInTree(tree, id) ==
    \E j \in 1..Len(tree) :
      NodeId(tree[j]) = id /\ Len(extractSectionText(tree[j])) > 0

\* C11: in the export the heading of descriptor i is followed by the
\* placeholder exactly when the tree holds no populated section with the
\* descriptor's id, so the placeholders number the descriptors that have no
\* populated section in the tree.
C11_PlaceholderIffAbsent ==
    epc = "written" =>
      LET pos == HeadingPositionsFrom(children, 1)
      IN /\ Len(pos) = Len(template)
         /\ \A i \in 1..Len(template) :
              /\ pos[i] + 1 <= Len(children)
              /\ IsPlaceholder(children[pos[i] + 1])
                   <=> ~PopulatedInTree(exportDraft.content, template[i].id)
         /\ Cardinality({i \in 1..Len(pos) : IsPlaceholder(children[pos[i] + 1])})
              = Cardinality({i \in 1..Len(template) :
                               ~PopulatedInTree(exportDraft.content, template[i].id)})

\* C12: an updateDraftSection called with a section id that no template
\* descriptor has ends in a caller-visible error and leaves the stored tree
\* and the provenance map as they were.
C12_ForeignIdRejected ==
    (last.op = "upsert" /\ "id" \in DOMAIN last /\ last.id \in ForeignIds) =>
      /\ ~last.ok
      /\ content = last.before.content
      /\ section_sources = last.before.section_sources

\* ------------------------------------------------------------------------
\* Properties of saving and exporting (SpecProject)
\* ------------------------------------------------------------------------
StatusGate == "Project must be in ready status to export"

\* a save of the project's draft ends well or in the store's own error
SaveNeverBlocked ==
    last.op = "save" => (last.ok \/ last.error = "Failed to save draft")

\* the written export has the heading of every descriptor, followed by the
\* placeholder where the exported tree has no section for the descriptor
GapsFilled ==
    epc = "written" =>
      LET pos == HeadingPositionsFrom(children, 1)
      IN /\ Len(pos) = Len(template)
         /\ \A i \in 1..Len(template) :
              template[i].id \notin Range(NodeIds(exportDraft.content))
                => IsPlaceholder(children[pos[i] + 1])

UpperCase == Chars("ABCDEFGHIJKLMNOPQRSTUVWXYZ")
LowerCase == Chars("abcdefghijklmnopqrstuvwxyz")

\* the /i flag: characters compare by their lower case
ToLower(c) ==
    IF c \in Range(UpperCase)
    THEN LowerCase[CHOOSE i \in 1..26 : UpperCase[i] = c]
    ELSE c

\* \w
IsWord(c) == c \in Range(UpperCase) \cup Range(LowerCase) \cup Range(Digits) \cup {"_"}

\* the literal lit (given in lower case) stands in t at position i, case ignored
MatchesAt(t, i, lit) ==
    /\ i >= 1
    /\ i + Len(lit) - 1 <= Len(t)
    /\ \A k \in 1..Len(lit) : ToLower(t[i + k - 1]) = lit[k]

\* position of the first character at or after i that fails / passes a test
RECURSIVE SkipWord(_, _)
SkipWord(t, i) == IF i <= Len(t) /\ IsWord(t[i]) THEN SkipWord(t, i + 1) ELSE i
RECURSIVE SkipSpace(_, _)
SkipSpace(t, i) == IF i <= Len(t) /\ IsSpace(t[i]) THEN SkipSpace(t, i + 1) ELSE i
RECURSIVE SkipWordOrSpace(_, _)
SkipWordOrSpace(t, i) ==
    IF i <= Len(t) /\ (IsWord(t[i]) \/ IsSpace(t[i])) THEN SkipWordOrSpace(t, i + 1) ELSE i
RECURSIVE SkipChar(_, _, _)
SkipChar(t, i, c) == IF i <= Len(t) /\ t[i] = c THEN SkipChar(t, i + 1, c) ELSE i
RECURSIVE FindChar(_, _, _)
FindChar(t, i, c) ==
    IF i > Len(t) THEN 0 ELSE IF t[i] = c THEN i ELSE FindChar(t, i + 1, c)

\* the rest of t from position i on
From(t, i) == SubSeq(t, i, Len(t))

\* ------------------------------------------------------------------------
\* contentValidator.cleanGeneratedText
\* ------------------------------------------------------------------------
\* the backquote character (a string literal of this language cannot hold
\* it; the circumflex stands for it in every text of the model)
Backquote == "^"
\* the code fence, three backquotes
Fence == <<Backquote, Backquote, Backquote>>

\* cleaned.replace(/^<fence>[\w]*\n?/, '')
StripFenceOpen(t) ==
    IF MatchesExactlyAt(t, 1, Fence)
    THEN LET j == SkipWord(t, 4)
         IN From(t, IF j <= Len(t) /\ t[j] = NL THEN j + 1 ELSE j)
    ELSE t

\* .replace(/\n?<fence>$/, '')
StripFenceClose(t) ==
    IF MatchesExactlyAt(t, Len(t) - 2, Fence)
    THEN LET f == Len(t) - 2
         IN SubSeq(t, 1, (IF f > 1 /\ t[f - 1] = NL THEN f - 1 ELSE f) - 1)
    ELSE t

Preambles == {Chars("here is"), Chars("here's"), Chars("below is"), Chars("the following is")}

\* cleaned.replace(/^(Here is|Here's|Below is|The following is)[^:]*:\s*/i, '')
StripPreamble(t) ==
    IF \E lit \in Preambles : MatchesAt(t, 1, lit) /\ FindChar(t, Len(lit) + 1, ":") > 0
    THEN From(t, SkipSpace(t, FindChar(t, 1, ":") + 1))
    ELSE t

\* cleaned.replace(/^#+\s*[\w\s]+\n+/, ''): the '#'s, then the run of word and
\* space characters up to its last line break, which must not be its first
\* character
StripHeading(t) ==
    LET h == SkipChar(t, 1, "#")
        e == SkipWordOrSpace(t, h)
        breaks == {i \in (h + 1)..(e - 1) : t[i] = NL}
    IN IF h > 1 /\ breaks # {}
       THEN From(t, (CHOOSE i \in breaks : \A j \in breaks : j <= i) + 1)
       ELSE t

Trailers ==
    {Chars("note:"), Chars("please note:"), Chars("i hope"), Chars("let me know"),
     Chars("is there anything")}

\* cleaned.replace(/\n+(Note:|Please note:|I hope|Let me know|Is there anything)[^]*$/i, '')
StripTrailer(t) ==
    LET starts == {i \in 1..Len(t) :
                     /\ t[i] = NL
                     /\ \E lit \in Trailers : MatchesAt(t, SkipChar(t, i, NL), lit)}
    IN IF starts # {}
       THEN SubSeq(t, 1, (CHOOSE i \in starts : \A j \in starts : i <= j) - 1)
       ELSE t

\* text.replace(/\s+/g, ' ')
\* (every run of white space gives one blank, at the place of its first
\* character; the text is worked by halves)
RECURSIVE CollapseRange(_, _, _)
CollapseRange(t, lo, hi) ==
    IF lo > hi THEN <<>>
    ELSE IF lo = hi
         THEN (IF ~IsSpace(t[lo]) THEN <<t[lo]>>
               ELSE IF lo = 1 \/ ~IsSpace(t[lo - 1]) THEN <<" ">>
               ELSE <<>>)
    ELSE LET mid == (lo + hi) \div 2
         IN CollapseRange(t, lo, mid) \o CollapseRange(t, mid + 1, hi)

CollapseSpaces(t) == CollapseRange(t, 1, Len(t))

\* helpers.normalizeWhitespace
normalizeWhitespace(t) == Trim(CollapseSpaces(t))

\* .join('\n\n')
RECURSIVE JoinParagraphs(_)
JoinParagraphs(seq) ==
    IF Len(seq) = 0 THEN <<>>
    ELSE IF Len(seq) = 1 THEN seq[1]
    ELSE seq[1] \o <<NL, NL>> \o JoinParagraphs(Tail(seq))

\* .split('\n\n').map(normalizeWhitespace).filter(...).join('\n\n')
NormalizeParagraphs(t) ==
    LET paragraphs == SplitParagraphs(t, <<>>)
    IN JoinParagraphs(FilterNonEmpty(
         [i \in 1..Len(paragraphs) |-> normalizeWhitespace(paragraphs[i])]))

cleanGeneratedText(text) ==
    IF Len(text) = 0 THEN <<>>
    ELSE Trim(NormalizeParagraphs(StripTrailer(StripHeading(StripPreamble(
           StripFenceClose(StripFenceOpen(text)))))))

\* ------------------------------------------------------------------------
\* SpecClean: cleanGeneratedText applied to bounded texts, and again to
\* what it returned
\* ------------------------------------------------------------------------
\* a text is up to MaxPieces of these, one after the other
CleanPieces ==
    {Chars("Here is the text: "), Chars("# Intro\n"), Fence, Fence \o Chars("js\n"),
     Chars("\nNote: n"), Chars("Body."), Chars("a  b"), Chars("\n\n"), Chars(" ")}

RECURSIVE Flatten(_)
Flatten(pieces) ==
    IF Len(pieces) = 0 THEN <<>> ELSE pieces[1] \o Flatten(Tail(pieces))

InitClean ==
    /\ \E n \in 0..MaxPieces : \E pieces \in [1..n -> CleanPieces] : arg = Flatten(pieces)
    /\ ret = <<>>
    /\ fpc = "input"

CleanTwice ==
    /\ fpc = "input"
    /\ ret' = [once |-> cleanGeneratedText(arg),
               twice |-> cleanGeneratedText(cleanGeneratedText(arg))]
    /\ fpc' = "done"
    /\ UNCHANGED arg

InitC == InitClean /\ IdleDraft /\ IdleHierarchy /\ IdleExport

NextC == CleanTwice /\ UNCHANGED <<hvars, dvars, evars>>

SpecClean == InitC /\ [][NextC]_vars

\* C16: cleanGeneratedText is idempotent: cleaning what it returned gives
\* the same text again.
C16_CleanIdempotent == fpc = "done" => ret.twice = ret.once

\* ------------------------------------------------------------------------
\* contentValidator.detectFailure, detectHallucination, parseSectionContent
\* ------------------------------------------------------------------------
\* Each pattern is an alternation of literals under the /i flag: the set of
\* its literals, in lower case.
HALLUCINATION_MARKERS ==
    << {Chars("i don't have access to"), Chars("i don't have information about")},
       {Chars("i cannot find"), Chars("i cannot locate"), Chars("i cannot access")},
       {Chars("there is no information"), Chars("there is no data"),
        Chars("there is no content")},
       {Chars("i would need more information"), Chars("i would need more context"),
        Chars("i would need more data")},
       {Chars("i'm not sure"), Chars("i'm not certain"), Chars("i'm not able to confirm")},
       {Chars("this may not be accurate"), Chars("this might not be accurate"),
        Chars("this could not be accurate")},
       {Chars("i cannot verify")},
       {Chars("hypothetically")},
       {Chars("i assume")},
       {Chars("let me imagine"), Chars("let me suppose"), Chars("let me assume")} >>

FAILURE_MARKERS ==
    << {Chars("insufficient source content")},
       {Chars("no relevant content found"), Chars("no relevant information found")},
       {Chars("unable to generate"), Chars("unable to create"), Chars("unable to write")},
       {Chars("content not available")} >>

\* the positions of t where the pattern matches
MatchPositions(t, pattern) ==
    {i \in 1..Len(t) : \E lit \in pattern : MatchesAt(t, i, lit)}

\* pattern.test(text)
Test(t, pattern) == MatchPositions(t, pattern) # {}

\* text.match(pattern)[0]: the text of the leftmost match
MatchText(t, pattern) ==
    LET i == CHOOSE a \in MatchPositions(t, pattern) :
                 \A b \in MatchPositions(t, pattern) : a <= b
        lit == CHOOSE l \in pattern : MatchesAt(t, i, l)
    IN SubSeq(t, i, i + Len(lit) - 1)

\* detectFailure: the first pattern of the list that matches
RECURSIVE DetectFailureFrom(_, _)
DetectFailureFrom(text, p) ==
    IF p > Len(FAILURE_MARKERS) THEN [failed |-> FALSE]
    ELSE IF Test(text, FAILURE_MARKERS[p])
         THEN [failed |-> TRUE, reason |-> MatchText(text, FAILURE_MARKERS[p])]
         ELSE DetectFailureFrom(text, p + 1)

\* only the first pattern of the list is tried
detectFailureFirstPatternOnly(text) ==
    IF Test(text, FAILURE_MARKERS[1])
    THEN [failed |-> TRUE, reason |-> MatchText(text, FAILURE_MARKERS[1])]
    ELSE [failed |-> FALSE]

detectFailure(text) == DetectFailureFrom(text, 1)

\* detectHallucination: the match of every pattern that matches, in list order
RECURSIVE HallucinationMarkersFrom(_, _)
HallucinationMarkersFrom(text, p) ==
    IF p > Len(HALLUCINATION_MARKERS) THEN <<>>
    ELSE (IF Test(text, HALLUCINATION_MARKERS[p])
          THEN <<MatchText(text, HALLUCINATION_MARKERS[p])>> ELSE <<>>)
           \o HallucinationMarkersFrom(text, p + 1)

detectHallucination(text) ==
    LET markers == HallucinationMarkersFrom(text, 1)
    IN [detected |-> Len(markers) > 0, markers |-> markers]

\* markers.join(', ')
RECURSIVE JoinComma(_)
JoinComma(seq) ==
    IF Len(seq) = 0 THEN <<>>
    ELSE IF Len(seq) = 1 THEN seq[1]
    ELSE seq[1] \o Chars(", ") \o JoinComma(Tail(seq))

\* cleaned.split(/\s+/).length: the runs of white space, plus one
SpaceRuns(t) ==
    Cardinality({i \in 1..Len(t) : IsSpace(t[i]) /\ (i = 1 \/ ~IsSpace(t[i - 1]))})

\* cleaned.split(/\n\n+/).length: the runs of two or more line breaks, plus one
BreakRuns(t) ==
    Cardinality({i \in 1..(Len(t) - 1) :
                   t[i] = NL /\ t[i + 1] = NL /\ (i = 1 \/ t[i - 1] # NL)})

\* "Check if content is too short": cleaned.length < 50
MinContentLength == 50

\* the text of exactly 50 characters counts as too short as well
IsTooShortInclusive(cleaned) == Len(cleaned) <= MinContentLength

IsTooShort(cleaned) == Len(cleaned) < MinContentLength

UncertaintyPrefix == Chars("Potential uncertainty detected: ")
ShortWarning ==
    Chars("Generated content is very short. May need additional source material.")
FailurePrefix == Chars("Could not generate content: ")

parseSectionContent(response, sectionTitle) ==
    LET cleaned == cleanGeneratedText(response)
        failure == detectFailure(cleaned)
        hallucination == detectHallucination(cleaned)
        isTooShort == IsTooShort(cleaned)
    IN IF failure.failed
       THEN [success |-> FALSE,
             content |-> <<>>,
             sectionTitle |-> sectionTitle,
             error |-> FailurePrefix \o failure.reason,
             needsManualInput |-> TRUE]
       ELSE [success |-> ~isTooShort,
             content |-> cleaned,
             sectionTitle |-> sectionTitle,
             warnings |->
               (IF hallucination.detected
                THEN <<UncertaintyPrefix \o JoinComma(hallucination.markers)>> ELSE <<>>)
               \o (IF isTooShort THEN <<ShortWarning>> ELSE <<>>),
             metadata |-> [wordCount |-> SpaceRuns(cleaned) + 1,
                           paragraphCount |-> BreakRuns(cleaned) + 1,
                           hasHallucinationMarkers |-> hallucination.detected]]

\* ------------------------------------------------------------------------
\* SpecValidate: parseSectionContent applied to bounded responses
\* ------------------------------------------------------------------------
\* 41 characters: with "I assume" one short of the length that passes
Filler41 == Chars("Recall improved steadily in every cohort.")

\* a response is up to MaxPieces of these, one after the other
ResponsePieces ==
    {Filler41, Chars("y"), Chars("Unable to generate"), Chars("content not available"),
     Chars("Hypothetically"), Chars("I assume"), Chars(" "), Chars("\n\n")}

InitValidate ==
    /\ \E n \in 0..MaxPieces : \E pieces \in [1..n -> ResponsePieces] :
         arg = [response |-> Flatten(pieces), sectionTitle |-> Chars("Intro")]
    /\ ret = <<>>
    /\ fpc = "input"

ParseSectionContent ==
    /\ fpc = "input"
    /\ ret' = parseSectionContent(arg.response, arg.sectionTitle)
    /\ fpc' = "done"
    /\ UNCHANGED arg

InitV == InitValidate /\ IdleDraft /\ IdleHierarchy /\ IdleExport

NextV == ParseSectionContent /\ UNCHANGED <<hvars, dvars, evars>>

SpecValidate == InitV /\ [][NextV]_vars

\* ------------------------------------------------------------------------
\* Properties of parseSectionContent (SpecValidate)
\* ------------------------------------------------------------------------
Union(patterns) == UNION {patterns[p] : p \in 1..Len(patterns)}

\* the text holds the literal somewhere, case ignored
Holds(t, lit) == \E i \in 1..Len(t) : MatchesAt(t, i, lit)

HasFailurePhrase(t) == \E lit \in Union(FAILURE_MARKERS) : Holds(t, lit)
HasHallucinationPhrase(t) == \E lit \in Union(HALLUCINATION_MARKERS) : Holds(t, lit)

Cleaned == cleanGeneratedText(arg.response)

\* C14: when the cleaned text holds a failure phrase, the result is
\* success = false with empty content and an error that names a failure
\* phrase as it stands in the text; it has no warnings and no metadata,
\* however long the text and whatever hallucination phrases it holds.
C14_FailureShortCircuits ==
    fpc = "done" =>
      LET cleaned == Cleaned
      IN HasFailurePhrase(cleaned) =>
           /\ DOMAIN ret = {"success", "content", "sectionTitle", "error",
                            "needsManualInput"}
           /\ ret.success = FALSE
           /\ ret.content = <<>>
           /\ \E lit \in Union(FAILURE_MARKERS), i \in 1..Len(cleaned) :
                /\ MatchesAt(cleaned, i, lit)
                /\ ret.error = FailurePrefix \o SubSeq(cleaned, i, i + Len(lit) - 1)

\* a text of 50 characters or more with a hallucination phrase and a
\* failure phrase (of the third pattern, in capitals) was refused
C14_Witness ==
    /\ fpc = "done"
    /\ LET cleaned == Cleaned
       IN /\ Len(cleaned) >= MinContentLength
          /\ HasHallucinationPhrase(cleaned)
          /\ Holds(cleaned, Chars("unable to generate"))
          /\ ~(\E i \in 1..Len(cleaned) :
                 MatchesExactlyAt(cleaned, i, Chars("unable to generate")))
    /\ ret.success = FALSE
    /\ "warnings" \notin DOMAIN ret

\* C15: for a text without failure phrase, success is true exactly when the
\* cleaned text has 50 characters or more; the content is the cleaned text
\* in every case; hallucination phrases only set hasHallucinationMarkers
\* and add one warning that lists them; a text under 50 characters gets the
\* short-content warning.
C15_SuccessIffLongEnough ==
    fpc = "done" =>
      LET cleaned == Cleaned
          marked == HasHallucinationPhrase(cleaned)
      IN ~HasFailurePhrase(cleaned) =>
           /\ ret.success = (Len(cleaned) >= 50)
           /\ ret.content = cleaned
           /\ ret.metadata.hasHallucinationMarkers = marked
           /\ Len(ret.warnings) = (IF marked THEN 1 ELSE 0)
                                    + (IF Len(cleaned) < 50 THEN 1 ELSE 0)
           /\ marked =>
                /\ SubSeq(ret.warnings[1], 1, Len(UncertaintyPrefix)) = UncertaintyPrefix
                /\ \A p \in 1..Len(HALLUCINATION_MARKERS) :
                     (\E lit \in HALLUCINATION_MARKERS[p] : Holds(cleaned, lit))
                       <=> (\E lit \in HALLUCINATION_MARKERS[p] :
                              Holds(ret.warnings[1], lit))
           /\ Len(cleaned) < 50 => ret.warnings[Len(ret.warnings)] = ShortWarning

\* a text of exactly 50 characters with a hallucination phrase passed, with
\* the one warning
C15_Witness ==
    /\ fpc = "done"
    /\ LET cleaned == Cleaned
       IN /\ ~HasFailurePhrase(cleaned)
          /\ Len(cleaned) = 50
          /\ Holds(cleaned, Chars("i assume"))
          /\ ret.content = cleaned
    /\ ret.success = TRUE
    /\ Len(ret.warnings) = 1

\* ------------------------------------------------------------------------
\* docxParser.parseDocxTemplate and docxParser.validateTemplate
\*
\* The document is what the DOCX library makes of the buffer: either it
\* throws (readable = FALSE, with the error's message), or it hands back
\* the HTML (here its heading elements, in document order), the raw text
\* (here its lines, the pieces of plainText.split('\n')) and its messages.
\* ------------------------------------------------------------------------
MaxHeadings == 2
MaxLines == 2
MaxHeadingLineLength == 100
MaxPatternLevel == 4

\* no placeholder (null in the code; a name is never empty)
NoPlaceholder == <<>>

\* [A-Z0-9_]
IsNameChar(c) == c \in Range(UpperCase) \cup Range(Digits) \cup {"_"}

RECURSIVE SkipName(_, _)
SkipName(t, i) == IF i <= Len(t) /\ IsNameChar(t[i]) THEN SkipName(t, i + 1) ELSE i

\* PLACEHOLDER_PATTERN matched at position i: the position after the match,
\* 0 when it does not match there
PlaceholderEndAt(t, i) ==
    IF i + 2 <= Len(t) /\ t[i] = "{" /\ t[i + 1] = "{" /\ t[i + 2] \in Range(UpperCase)
    THEN LET j == SkipName(t, i + 3)
         IN IF j + 1 <= Len(t) /\ t[j] = "}" /\ t[j + 1] = "}" THEN j + 2 ELSE 0
    ELSE 0

RECURSIVE ExtractPlaceholdersFrom(_, _)
ExtractPlaceholdersFrom(t, i) ==
    IF i > Len(t) THEN <<>>
    ELSE LET end == PlaceholderEndAt(t, i)
         IN IF end > 0
            THEN <<[full |-> SubSeq(t, i, end - 1),
                    name |-> SubSeq(t, i + 2, end - 3),
                    index |-> i - 1]>> \o ExtractPlaceholdersFrom(t, end)
            ELSE ExtractPlaceholdersFrom(t, i + 1)

extractPlaceholders(text) == ExtractPlaceholdersFrom(text, 1)

\* placeholders.length > 0 ? placeholders[0].name : null
FirstPlaceholder(text) ==
    LET placeholders == extractPlaceholders(text)
    IN IF Len(placeholders) > 0 THEN placeholders[1].name ELSE NoPlaceholder

\* the n-th id generateId hands out in one call of the parser
GeneratedId(n) == DescIds[((n - 1) % Len(DescIds)) + 1]

\* match[2] || '' of headingPattern: the [^>]* before the optional class
\* group is greedy and takes the whole attribute list, the group then
\* matches nothing, so the class is never captured
ClassName(heading) == ""

\* className.includes('title')
IncludesTitle(className) == className = "title"

\* the while loop over the matches of headingPattern
RECURSIVE StyleLoop(_, _, _, _)
StyleLoop(headings, i, ord, structure) ==
    IF i > Len(headings) THEN structure
    ELSE LET title == Trim(headings[i].text)
         IN StyleLoop(headings, i + 1, ord + 1,
                      Append(structure,
                             [id |-> GeneratedId(ord),
                              level |-> headings[i].level,
                              title |-> title,
                              placeholder |-> FirstPlaceholder(title),
                              order |-> ord,
                              isTitle |-> IncludesTitle(ClassName(headings[i]))]))

\* (\.\d+)*
RECURSIVE SkipOutline(_, _)
SkipOutline(t, i) ==
    IF i + 1 <= Len(t) /\ t[i] = "." /\ t[i + 1] \in Range(Digits)
    THEN SkipOutline(t, SkipDigits(t, i + 2))
    ELSE i

\* the position after ^\d+(\.\d+)*\.? (1 when there is no leading digit)
OutlineEnd(t) ==
    LET a == SkipDigits(t, 1)
        b == SkipOutline(t, a)
    IN IF a = 1 THEN 1
       ELSE IF b <= Len(t) /\ t[b] = "." THEN b + 1 ELSE b

\* /^\d+(\.\d+)*\.?\s+[A-Z]/.test(trimmed)
IsNumberedHeading(t) ==
    LET c == OutlineEnd(t)
        d == SkipSpace(t, c)
    IN c > 1 /\ d > c /\ d <= Len(t) /\ t[d] \in Range(UpperCase)

\* (trimmed.match(/\./g) || []).length
DotCount(trimmed) == Cardinality({i \in 1..Len(trimmed) : trimmed[i] = "."})

Min(a, b) == IF a < b THEN a ELSE b

\* the for loop over the lines of the plain text
RECURSIVE PatternLoop(_, _, _, _)
PatternLoop(lines, i, ord, structure) ==
    IF i > Len(lines) THEN structure
    ELSE LET trimmed == Trim(lines[i])
             placeholder == FirstPlaceholder(trimmed)
         IN IF Len(trimmed) = 0 \/ Len(trimmed) > MaxHeadingLineLength
            THEN PatternLoop(lines, i + 1, ord, structure)
            ELSE IF placeholder # NoPlaceholder
            THEN PatternLoop(lines, i + 1, ord + 1,
                             Append(structure,
                                    [id |-> GeneratedId(ord),
                                     level |-> 1,
                                     title |-> trimmed,
                                     placeholder |-> placeholder,
                                     order |-> ord,
                                     isTitle |-> FALSE]))
            ELSE IF IsNumberedHeading(trimmed)
            THEN PatternLoop(lines, i + 1, ord + 1,
                             Append(structure,
                                    [id |-> GeneratedId(ord),
                                     level |-> Min(DotCount(trimmed) + 1, MaxPatternLevel),
                                     title |-> trimmed,
                                     placeholder |-> NoPlaceholder,
                                     order |-> ord,
                                     isTitle |-> FALSE]))
            ELSE PatternLoop(lines, i + 1, ord, structure)

FallbackWarning == "No heading styles detected. Using text pattern detection."
FewSectionsWarning ==
    "Template has very few sections. Consider adding more heading structure."
FailedPrefix == "Failed to parse template: "

\* the messages of type 'warning'
RECURSIVE LibraryWarnings(_)
LibraryWarnings(messages) ==
    IF Len(messages) = 0 THEN <<>>
    ELSE (IF messages[1].type = "warning" THEN <<messages[1].message>> ELSE <<>>)
           \o LibraryWarnings(Tail(messages))

UnreadableResultSucceeds(docx) ==
    [success |-> TRUE, warnings |-> <<>>, structure |-> <<>>,
     plainText |-> <<>>, htmlPreview |-> <<>>]

\* the catch branch
UnreadableResult(docx) ==
    [success |-> FALSE,
     warnings |-> <<FailedPrefix \o docx.error>>,
     structure |-> <<>>,
     plainText |-> <<>>,
     htmlPreview |-> <<>>]

parseDocxTemplateBothPaths(docx) ==
    IF ~docx.readable THEN UnreadableResult(docx)
    ELSE LET styled == StyleLoop(docx.headings, 1, 1, <<>>)
             structure == PatternLoop(docx.lines, 1, Len(styled) + 1, styled)
         IN [success |-> TRUE,
             warnings |-> LibraryWarnings(docx.messages)
                            \o (IF Len(structure) < 2
                                THEN <<FewSectionsWarning>> ELSE <<>>),
             structure |-> buildHierarchy(structure),
             plainText |-> docx.lines,
             htmlPreview |-> docx.headings]

parseDocxTemplate(docx) ==
    IF ~docx.readable THEN UnreadableResult(docx)
    ELSE LET styled == StyleLoop(docx.headings, 1, 1, <<>>)
             fallback == Len(styled) = 0
             structure == IF fallback
                          THEN PatternLoop(docx.lines, 1, 1, <<>>)
                          ELSE styled
         IN [success |-> TRUE,
             warnings |-> (IF fallback THEN <<FallbackWarning>> ELSE <<>>)
                            \o LibraryWarnings(docx.messages)
                            \o (IF Len(structure) < 2
                                THEN <<FewSectionsWarning>> ELSE <<>>),
             structure |-> buildHierarchy(structure),
             plainText |-> docx.lines,
             htmlPreview |-> docx.headings]

\* a text as a string
RECURSIVE Str(_)
Str(t) == IF Len(t) = 0 THEN "" ELSE t[1] \o Str(Tail(t))

\* result.structure.filter(s => s.placeholder).map(s => s.placeholder)
RECURSIVE PlaceholdersOf(_)
PlaceholdersOf(structure) ==
    IF Len(structure) = 0 THEN <<>>
    ELSE (IF structure[1].placeholder # NoPlaceholder
          THEN <<structure[1].placeholder>> ELSE <<>>)
           \o PlaceholdersOf(Tail(structure))

\* placeholders.indexOf(p)
IndexOf(seq, p) == CHOOSE i \in 1..Len(seq) : seq[i] = p /\ \A k \in 1..(i - 1) : seq[k] # p

\* placeholders.filter((p, i) => placeholders.indexOf(p) !== i)
Duplicates(placeholders) ==
    KeepPositions(placeholders, 1,
                  {i \in 1..Len(placeholders) : IndexOf(placeholders, placeholders[i]) # i})

\* [...new Set(duplicates)]
Distinct(seq) ==
    KeepPositions(seq, 1, {i \in 1..Len(seq) : IndexOf(seq, seq[i]) = i})

CouldNotParse == "Could not parse the DOCX file"
NoSections == "No sections detected in template. Add headings or placeholders."
DuplicatePrefix == "Duplicate placeholders found: "

validateTemplate(docx) ==
    LET result == parseDocxTemplate(docx)
    IN IF ~result.success
       THEN [valid |-> FALSE, errors |-> <<CouldNotParse>>]
       ELSE LET duplicates == Duplicates(PlaceholdersOf(result.structure))
                errors == (IF Len(result.structure) = 0 THEN <<NoSections>> ELSE <<>>)
                            \o (IF Len(duplicates) > 0
                                THEN <<DuplicatePrefix \o Str(JoinComma(Distinct(duplicates)))>>
                                ELSE <<>>)
            IN [valid |-> Len(errors) = 0,
                errors |-> errors,
                structure |-> result.structure,
                warnings |-> result.warnings]

\* headings of the HTML: a styled title, a heading with a placeholder
HeadingChoices ==
    {[level |-> 1, class |-> "title", text |-> Chars(" Overview ")],
     [level |-> 2, class |-> "", text |-> Chars("Scope {{SCOPE}}")]}

\* a line of more than MaxHeadingLineLength characters that starts as a
\* numbered heading does
LongLine == Chars("4 Appendix ") \o [i \in 1..MaxHeadingLineLength |-> "x"]

\* lines of the raw text
LineChoices ==
    {Chars("2.1 Background"),
     Chars("2.1 Background vs. Methods"),
     Chars("  1.2.3.4.5 Deep"),
     Chars("3 Results"),
     Chars("{{SCOPE}} goes here"),
     Chars("plain words. "),
     LongLine}

MessageChoices ==
    {<<>>,
     <<[type |-> "warning", message |-> "Unrecognised paragraph style"],
       [type |-> "info", message |-> "Document converted"]>>}

InitParse ==
    /\ \E n \in 0..MaxHeadings, m \in 0..MaxLines, readable \in BOOLEAN,
          messages \in MessageChoices :
         \E headings \in [1..n -> HeadingChoices], lines \in [1..m -> LineChoices] :
           arg = [readable |-> readable, error |-> "Corrupted zip",
                  headings |-> headings, lines |-> lines, messages |-> messages]
    /\ ret = <<>>
    /\ fpc = "input"

ParseDocxTemplate ==
    /\ fpc = "input"
    /\ ret' = [parsed |-> parseDocxTemplate(arg)]
    /\ fpc' = "parsed"
    /\ UNCHANGED <<hvars, dvars, evars, arg>>

ValidateTemplate ==
    /\ fpc = "parsed"
    /\ ret' = [parsed |-> ret.parsed, validated |-> validateTemplate(arg)]
    /\ fpc' = "validated"
    /\ UNCHANGED <<hvars, dvars, evars, arg>>

InitT == InitParse /\ IdleDraft /\ IdleHierarchy /\ IdleExport

NextT == ParseDocxTemplate \/ ValidateTemplate

SpecParse == InitT /\ [][NextT]_vars

\* ------------------------------------------------------------------------
\* Properties of the structure extraction (SpecParse)
\* ------------------------------------------------------------------------
\* the '.' characters of the numeric prefix of a line
PrefixDots(trimmed) ==
    Cardinality({i \in 1..(OutlineEnd(trimmed) - 1) : trimmed[i] = "."})

\* a line the pattern-based extraction takes for a numbered heading
IsOutlineLine(line) ==
    LET trimmed == Trim(line)
    IN /\ Len(trimmed) > 0
       /\ Len(trimmed) <= MaxHeadingLineLength
       /\ FirstPlaceholder(trimmed) = NoPlaceholder
       /\ IsNumberedHeading(trimmed)

\* the call took the pattern-based path
PatternPath == fpc # "input" /\ arg.readable /\ Len(arg.headings) = 0

\* C17: in pattern-based extraction every short line with a numeric outline
\* prefix followed by a capitalised word becomes a descriptor, and the level
\* of such a descriptor is min(4, dots of the numeric prefix + 1): '2.1
\* Background' has level 2, no level is above 4, and dots elsewhere in the
\* title do not count.
C17_LevelFromPrefixDots ==
    PatternPath =>
      LET structure == ret.parsed.structure
      IN /\ \A i \in 1..Len(arg.lines) :
              IsOutlineLine(arg.lines[i]) =>
                \E k \in 1..Len(structure) : structure[k].title = Trim(arg.lines[i])
         /\ \A k \in 1..Len(structure) :
              structure[k].placeholder = NoPlaceholder =>
                /\ structure[k].level
                     = Min(MaxPatternLevel, PrefixDots(structure[k].title) + 1)
                /\ structure[k].level <= MaxPatternLevel
                /\ structure[k].title = Chars("2.1 Background")
                     => structure[k].level = 2

StyleTitles == {Trim(h.text) : h \in HeadingChoices}
PatternTitles == {Trim(l) : l \in LineChoices}

\* C18: pattern-based extraction runs only when style-based extraction
\* produced no descriptor: the returned structure holds descriptors of one
\* path only (those of the headings when there are any), the fallback
\* warning is among the warnings exactly when the pattern-based path was
\* used, and the order field increases strictly along the list.
C18_OnePathPerDocument ==
    (fpc # "input" /\ arg.readable) =>
      LET structure == ret.parsed.structure
          titles == {structure[k].title : k \in 1..Len(structure)}
      IN /\ titles \subseteq StyleTitles \/ titles \subseteq PatternTitles
         /\ Len(arg.headings) > 0 =>
              /\ Len(structure) = Len(arg.headings)
              /\ titles \subseteq StyleTitles
         /\ Len(arg.headings) = 0 => titles \subseteq PatternTitles
         /\ FallbackWarning \in Range(ret.parsed.warnings) <=> Len(arg.headings) = 0
         /\ \A k \in 1..(Len(structure) - 1) :
              structure[k].order < structure[k + 1].order

\* a document with two styled headings and a numbered line was parsed
C18_Witness ==
    /\ fpc = "parsed"
    /\ arg.readable
    /\ Len(arg.headings) = 2
    /\ \E i \in 1..Len(arg.lines) : IsOutlineLine(arg.lines[i])
    /\ Len(ret.parsed.structure) = 2

\* C19: for a document that cannot be opened or decoded parseDocxTemplate
\* returns a result (it does not throw) with success = false, an empty
\* structure and one warning that carries the failure's message, and
\* validateTemplate reports valid = false.
C19_UnreadableFailsQuietly ==
    (fpc # "input" /\ ~arg.readable) =>
      /\ ret.parsed.success = FALSE
      /\ ret.parsed.structure = <<>>
      /\ ret.parsed.warnings = <<FailedPrefix \o arg.error>>
      /\ fpc = "validated" =>
           /\ ret.validated.valid = FALSE
           /\ ret.validated.errors = <<CouldNotParse>>

\* an unreadable document went through parseDocxTemplate and validateTemplate
C19_Witness ==
    /\ fpc = "validated"
    /\ ~arg.readable
    /\ ~ret.parsed.success
    /\ ~ret.validated.valid

\* ------------------------------------------------------------------------
\* Table chunks: draftBuilder.parseMarkdownTableToNodes (ingest) and
\* docxWriter.parseMarkdownTable (export)
\* ------------------------------------------------------------------------
MaxRows == 3

\* lines of table chunks: header and body rows, separators with dashes only
\* and with colons, body rows with a cell of dashes, with a hyphenated word
\* and with an empty cell, a line of blanks
RowChoices ==
    {Chars("| A | B |"),
     Chars("| --- | --- |"),
     Chars("|:-:|:--|"),
     Chars("| 1 | 2 |"),
     Chars("| --- | 4 |"),
     Chars("| x-y | 6 |"),
     Chars("| 7 |  | 9 |"),
     Chars("  ")}

\* lines.join('\n')
RECURSIVE JoinLines(_)
JoinLines(lines) ==
    IF Len(lines) = 0 THEN <<>>
    ELSE IF Len(lines) = 1 THEN lines[1]
    ELSE lines[1] \o <<NL>> \o JoinLines(Tail(lines))

\* the test both converters make before they take a chunk for a table
IsTableChunk(para) == Includes(para, <<"|">>) /\ Len(Split(Trim(para), NL)) > 1

InitTable ==
    /\ \E n \in 2..MaxRows :
         \E lines \in [1..n -> RowChoices] :
           /\ IsTableChunk(JoinLines(lines))
           /\ arg = JoinLines(lines)
    /\ ret = <<>>
    /\ fpc = "input"

ParseMarkdownTableToNodes ==
    /\ fpc = "input"
    /\ ret' = parseMarkdownTableToNodes(arg)
    /\ fpc' = "nodes"
    /\ UNCHANGED <<hvars, dvars, evars, arg>>

ParseMarkdownTable ==
    /\ fpc = "input"
    /\ ret' = parseMarkdownTable(arg)
    /\ fpc' = "table"
    /\ UNCHANGED <<hvars, dvars, evars, arg>>

InitM == InitTable /\ IdleDraft /\ IdleHierarchy /\ IdleExport

NextM == ParseMarkdownTableToNodes \/ ParseMarkdownTable

SpecTable == InitM /\ [][NextM]_vars

\* ------------------------------------------------------------------------
\* Properties of the table parsing (SpecTable)
\* ------------------------------------------------------------------------
\* a line made only of dashes, colons and pipes (and blanks)
IsSeparatorLine(line) ==
    /\ \E i \in 1..Len(line) : line[i] = "-"
    /\ \A i \in 1..Len(line) : line[i] \in {"-", ":", "|", " "}

\* the cells of a line: split on '|', trimmed, the empty first and last
\* cells dropped
EdgeTrimmedCells(line) ==
    LET cells == TrimAll(Split(line, "|"))
        lo == IF Len(cells) > 0 /\ Len(cells[1]) = 0 THEN 2 ELSE 1
        hi == IF Len(cells) > 0 /\ Len(cells[Len(cells)]) = 0
              THEN Len(cells) - 1 ELSE Len(cells)
    IN SubSeq(cells, lo, hi)

\* the lines of the chunk that are not separators
DataLines(tableText) ==
    LET lines == TableLines(tableText)
    IN KeepPositions(lines, 1, {i \in 1..Len(lines) : ~IsSeparatorLine(lines[i])})

\* the cells of the rows of a table of the tree
CellTexts(row) == [k \in 1..Len(row.content) |-> row.content[k].content[1].content[1].text]

\* C20: of a table chunk the first line that is no separator gives the
\* header cells, the lines made only of dashes, colons and pipes are
\* skipped, and every other line gives one body row, in order, with the cells
\* split on '|', trimmed and the empty edge cells dropped, in the ingest as in
\* the export parser; a body row with dashes in a cell is kept as it is.
C20_TableRows ==
    LET data == DataLines(arg)
        expected == [k \in 1..Len(data) |-> EdgeTrimmedCells(data[k])]
    IN /\ fpc = "nodes" =>
            /\ Len(ret) = Len(expected)
            /\ \A k \in 1..Len(ret) :
                 /\ CellTexts(ret[k]) = expected[k]
                 /\ \A c \in 1..Len(ret[k].content) :
                      ret[k].content[c].type
                        = (IF k = 1 THEN "tableHeader" ELSE "tableCell")
       /\ fpc = "table" =>
            /\ "headers" \in DOMAIN ret
            /\ Len(data) > 0 => ret.headers = expected[1]
            /\ ret.rows = Tail(expected)

\* the part of C20 about its example: headers [A, B] and one body row [1, 2]
TableExample == JoinLines(<<Chars("| A | B |"), Chars("| --- | --- |"), Chars("| 1 | 2 |")>>)

C20_ExampleHolds ==
    arg = TableExample =>
      /\ fpc = "nodes" =>
           /\ Len(ret) = 2
           /\ CellTexts(ret[1]) = <<<<"A">>, <<"B">>>>
           /\ CellTexts(ret[2]) = <<<<"1">>, <<"2">>>>
      /\ fpc = "table" =>
           /\ ret.headers = <<<<"A">>, <<"B">>>>
           /\ ret.rows = <<<<<<"1">>, <<"2">>>>>>

\* ------------------------------------------------------------------------
\* Generated text through both converters: into tree nodes on upsert
\* (convertContentToProseMirror, read back by extractSectionText) and into
\* document elements on export (convertContentToDocx)
\* ------------------------------------------------------------------------
MaxChunks == 2

\* chunks of plain text: doubled blanks, two lines, blanks around, a line
\* break before (the text had three line breaks in a row)
PlainChunks ==
    {Chars("Plain  words here."),
     JoinLines(<<Chars("two"), Chars("lines ")>>),
     Chars(" padded text "),
     JoinLines(<<<<>>, Chars("late start")>>)}

\* chunks with markers: lists, a list marker on a later line, a list marker
\* after a blank, a table, a '|' on one line and after a line break,
\* emphasis that is closed and that is not
MarkedChunks ==
    {JoinLines(<<Chars("- item one"), Chars("- item two")>>),
     JoinLines(<<Chars("1. first"), Chars("2. second")>>),
     JoinLines(<<Chars("Intro line"), Chars("- later marker")>>),
     Chars(" - indented item"),
     JoinLines(<<Chars("| A | B |"), Chars("| 1 | 2 |")>>),
     Chars("a | b"),
     JoinLines(<<<<>>, Chars("z | w")>>),
     Chars("some **bold** and *it* text"),
     Chars("**open *x* end")}

\* chunks.join('\n\n')
RECURSIVE JoinChunks(_)
JoinChunks(chunks) ==
    IF Len(chunks) = 0 THEN <<>>
    ELSE IF Len(chunks) = 1 THEN chunks[1]
    ELSE chunks[1] \o <<NL, NL>> \o JoinChunks(Tail(chunks))

InitConvert ==
    /\ \E n \in 1..MaxChunks :
         \E chunks \in [1..n -> PlainChunks \cup MarkedChunks] : arg = JoinChunks(chunks)
    /\ ret = <<>>
    /\ fpc = "input"

\* the section node updateDraftSection builds of the text, and the text
\* convertDraftForExport reads back from it
IngestText ==
    /\ fpc = "input"
    /\ LET sectionNode == SectionNode("s1", TitleOf("s1"), arg)
       IN ret' = [section |-> sectionNode, text |-> extractSectionText(sectionNode)]
    /\ fpc' = "ingested"
    /\ UNCHANGED <<hvars, dvars, evars, arg>>

\* the elements generateDocx makes of the same text
ExportText ==
    /\ fpc = "ingested"
    /\ ret' = [section |-> ret.section, text |-> ret.text,
               elements |-> convertContentToDocx(arg)]
    /\ fpc' = "exported"
    /\ UNCHANGED <<hvars, dvars, evars, arg>>

InitX == InitConvert /\ IdleDraft /\ IdleHierarchy /\ IdleExport

NextX == IngestText \/ ExportText

SpecConvert == InitX /\ [][NextX]_vars

\* ------------------------------------------------------------------------
\* Properties of the converters (SpecConvert)
\* ------------------------------------------------------------------------
\* the blank-line-delimited chunks of a text
Chunks(text) == FilterNonBlank(SplitParagraphs(text, <<>>))

\* the paragraphs of a text, white space normalised
Paragraphs(text) ==
    LET chunks == Chunks(text)
    IN [k \in 1..Len(chunks) |-> normalizeWhitespace(chunks[k])]

\* a list marker at position i: '-' or '*' or digits and '.', a blank after
IsListMarkerAt(t, i) == IsBulletAt(t, i) \/ IsNumberAt(t, i)

\* text of plain paragraphs: no '*', no '|', no line that starts, after its
\* blanks, with a list marker
IsPlain(text) ==
    /\ \A i \in 1..Len(text) : text[i] \notin {"*", "|"}
    /\ LET lines == Split(text, NL)
       IN \A k \in 1..Len(lines) : ~IsListMarkerAt(TrimLeft(lines[k]), 1)

\* the blocks of the section node after its heading
BlocksOf(section) == Tail(section.content)

\* C21: for a text of plain paragraphs separated by blank lines (no
\* emphasis, no list marker, no '|') the section node built on upsert has
\* one paragraph node per paragraph, and the text read back from it for the
\* export has the same paragraphs in the same order, white space normalised.
C21_PlainRoundTrip ==
    (fpc # "input" /\ IsPlain(arg)) =>
      /\ Len(BlocksOf(ret.section)) = Len(Paragraphs(arg))
      /\ \A k \in 1..Len(BlocksOf(ret.section)) :
           BlocksOf(ret.section)[k].type = "paragraph"
      /\ Paragraphs(ret.text) = Paragraphs(arg)

\* two plain paragraphs with blanks to normalise went through the round trip
C21_Witness ==
    /\ fpc = "ingested"
    /\ IsPlain(arg)
    /\ Len(Paragraphs(arg)) = 2
    /\ ret.text # arg

\* the kind of a block of the tree
NodeKind(node) ==
    IF node.type = "table" THEN "table"
    ELSE IF node.type \in {"bulletList", "orderedList"} THEN "list"
    ELSE node.type

\* the kind the classification rule gives a chunk: table when it has a '|'
\* and spans more than one line, else list when its first non-empty line
\* starts with a list marker, else paragraph
RuleKind(chunk) ==
    LET lines == FilterNonBlank(Split(chunk, NL))
    IN IF Includes(chunk, <<"|">>) /\ Len(Split(chunk, NL)) > 1 THEN "table"
       ELSE IF Len(lines) > 0 /\ IsListMarkerAt(lines[1], 1) THEN "list"
       ELSE "paragraph"

\* C22: on ingest every blank-line-delimited chunk becomes one block, a
\* table if the chunk has a '|' and spans more than one line, otherwise a
\* list if and only if its first non-empty line starts with a list marker,
\* otherwise a paragraph; a chunk whose first line is plain text is a
\* paragraph even when a later line starts with a list marker.
C22_IngestClassification ==
    fpc # "input" =>
      LET chunks == Chunks(arg)
          blocks == BlocksOf(ret.section)
      IN /\ Len(blocks) = Len(chunks)
         /\ \A k \in 1..Len(blocks) : NodeKind(blocks[k]) = RuleKind(chunks[k])

\* the kind of the elements the export makes of one chunk
ElementsKind(elements) ==
    IF Len(elements) = 1 /\ elements[1].kind = "table" THEN "table"
    ELSE IF \A k \in 1..Len(elements) : "bullet" \in DOMAIN elements[k] THEN "list"
    ELSE "paragraph"

\* the runs of a paragraph of the tree and of a paragraph of the document,
\* as text and emphasis
RunsOfNode(node) ==
    [k \in 1..Len(node.content) |->
       [text |-> node.content[k].text,
        mark |-> IF "marks" \in DOMAIN node.content[k]
                 THEN node.content[k].marks[1].type ELSE "none"]]

RunsOfElement(element) ==
    [k \in 1..Len(element.children) |->
       [text |-> element.children[k].text,
        mark |-> IF "bold" \in DOMAIN element.children[k] THEN "bold"
                 ELSE IF "italics" \in DOMAIN element.children[k] THEN "italic"
                 ELSE "none"]]

\* C30: the ingest converter and the export converter give every chunk of a
\* text the same kind (table, list or paragraph), and split the emphasis of
\* a paragraph into the same plain, bold and italic runs.
C30_ConvertersAgree ==
    fpc = "exported" =>
      LET chunks == Chunks(arg)
          blocks == BlocksOf(ret.section)
      IN /\ ret.elements = DocxElementsOfAll(chunks)
         /\ \A k \in 1..Len(chunks) :
              LET elements == DocxElements(chunks[k])
              IN /\ NodeKind(blocks[k]) = ElementsKind(elements)
                 /\ NodeKind(blocks[k]) = "paragraph" =>
                      RunsOfNode(blocks[k]) = RunsOfElement(elements[1])

\* the part of C30 about emphasis, for the chunks both converters take for
\* paragraphs
C30_EmphasisAgrees ==
    fpc = "exported" =>
      LET chunks == Chunks(arg)
          blocks == BlocksOf(ret.section)
      IN \A k \in 1..Len(chunks) :
           LET elements == DocxElements(chunks[k])
           IN (NodeKind(blocks[k]) = "paragraph" /\ ElementsKind(elements) = "paragraph")
                => RunsOfNode(blocks[k]) = RunsOfElement(elements[1])

\* ------------------------------------------------------------------------
\* GET /api/drafts/project/:projectId/sections (SpecSections: the handlers
\* of Spec, and the route reading the row between them)
\* ------------------------------------------------------------------------
\* only the heading is required to be there for hasContent
listSectionsCountsHeading(draft) ==
    LET nodes == KeepPositions(draft.content, 1,
                               {i \in 1..Len(draft.content) : NodeId(draft.content[i]) # Null})
    IN [i \in 1..Len(nodes) |->
          [id |-> NodeId(nodes[i]),
           title |-> IF HasAttr(nodes[i], "title") /\ Len(nodes[i].attrs.title) > 0
                     THEN nodes[i].attrs.title ELSE <<"Untitled">>,
           hasContent |-> "content" \in DOMAIN nodes[i] /\ Len(nodes[i].content) > 0,
           warnings |-> IF /\ NodeId(nodes[i]) \in DOMAIN draft.section_sources
                           /\ "warnings" \in DOMAIN draft.section_sources[NodeId(nodes[i])]
                        THEN draft.section_sources[NodeId(nodes[i])].warnings
                        ELSE <<>>]]

\* the section list of the route: .filter(node => node.attrs?.id).map(...)
listSections(draft) ==
    LET nodes == KeepPositions(draft.content, 1,
                               {i \in 1..Len(draft.content) : NodeId(draft.content[i]) # Null})
    IN [i \in 1..Len(nodes) |->
          [id |-> NodeId(nodes[i]),
           title |-> IF HasAttr(nodes[i], "title") /\ Len(nodes[i].attrs.title) > 0
                     THEN nodes[i].attrs.title ELSE <<"Untitled">>,
           hasContent |-> "content" \in DOMAIN nodes[i] /\ Len(nodes[i].content) > 1,
           warnings |-> IF /\ NodeId(nodes[i]) \in DOMAIN draft.section_sources
                           /\ "warnings" \in DOMAIN draft.section_sources[NodeId(nodes[i])]
                        THEN draft.section_sources[NodeId(nodes[i])].warnings
                        ELSE <<>>]]

\* the route; projectId is no UUID, or of no project of the user, or of the
\* project of the draft (which exists from the creation of the project on)
ListSections(projectId) ==
    /\ fpc = "idle"
    /\ fpc' = "listed"
    /\ arg' = projectId
    /\ ret' = IF projectId = "not-a-uuid"
              THEN [success |-> FALSE, error |-> "Project ID must be a valid UUID"]
              ELSE IF projectId # "project1"
              THEN [success |-> FALSE, error |-> "Project not found"]
              ELSE LET sections == listSections(Before)
                   IN [success |-> TRUE, sections |-> sections,
                       totalSections |-> Len(sections)]
    /\ UNCHANGED <<hvars, dvars, evars>>

\* the result of the route is read anew after every change of the row
Unlisted == arg' = <<>> /\ ret' = <<>> /\ fpc' = "idle"

\* the handlers are called for the draft of the project and the store does
\* not fail: the calls that change the row
NextS ==
    \/ \E id \in SectionIds \cup ForeignIds, text \in Contents, warnings \in WarningLists :
         /\ UpdateDraftSection("draft1", id, text, SourceRefsOf(text), warnings, TRUE)
         /\ Unlisted
         /\ UNCHANGED <<pc, req, version, hvars, evars>>
    \/ \E tree \in EditorTrees(content) :
         /\ SaveDraftContent("project1", tree, TRUE)
         /\ Unlisted
         /\ UNCHANGED <<pc, req, version, hvars, evars>>
    \/ \E projectId \in ProjectIds \cup {"not-a-uuid"} : ListSections(projectId)

SpecSections == Init /\ [][NextS]_vars

\* the section nodes of the tree, in tree order
SectionNodesOf(tree) ==
    KeepPositions(tree, 1, {i \in 1..Len(tree) : tree[i].type = "section"})

\* the blocks of a node besides its heading
BlocksBesidesHeading(node) ==
    {k \in 1..Len(node.content) : node.content[k].type # "heading"}

NextU ==
    \E draftId \in DraftIds, id \in SectionIds \cup ForeignIds, text \in Contents,
       warnings \in WarningLists, dbOk \in BOOLEAN :
      /\ UpdateDraftSection(draftId, id, text, SourceRefsOf(text), warnings, dbOk)
      /\ UNCHANGED <<pc, req, version, hvars, evars, fvars>>

SpecUpserts == Init /\ [][NextU]_vars

\* the nodes of a tree that belong to other sections than id, in tree order
OtherNodes(tree, id) ==
    KeepPositions(tree, 1, {i \in 1..Len(tree) : NodeId(tree[i]) # id})

\* C26: in every state reached from the new draft by updateDraftSection
\* calls alone the keys of the provenance map are the section ids of the
\* tree, and each call leaves the nodes and the provenance entries of every
\* other section as they were.
C26_ProvenanceFollowsTree ==
    /\ DOMAIN section_sources = Range(NodeIds(content))
    /\ \A i \in 1..Len(content) : content[i].type = "section"
    /\ (last.op = "upsert" /\ last.ok) =>
         /\ OtherNodes(content, last.id) = OtherNodes(last.before.content, last.id)
         /\ \A id \in DOMAIN last.before.section_sources \ {last.id} :
              /\ id \in DOMAIN section_sources
              /\ section_sources[id] = last.before.section_sources[id]
         /\ DOMAIN section_sources = DOMAIN last.before.section_sources \cup {last.id}

\* a section was upserted again while the tree held another section
C26_Witness ==
    /\ last.op = "upsert" /\ last.ok
    /\ last.id \in DOMAIN last.before.section_sources
    /\ Len(OtherNodes(content, last.id)) > 0
    /\ Len(content) = 2

\* what the export writes under the heading of a descriptor for a section
\* node: the elements of its text, the placeholder when it has no text
ExportedFor(node) ==
    IF Len(extractSectionText(node)) > 0
    THEN convertContentToDocx(extractSectionText(node))
    ELSE <<createParagraph(PlaceholderText, "left")>>

\* C25: for every template descriptor whose id a section node of the tree
\* carries, the export writes under the descriptor's heading the content of
\* a node with that id, also when a section placed earlier in the tree has
\* the descriptor's title and when two descriptors share a title.
C25_ContentById ==
    epc = "written" =>
      LET pos == HeadingPositionsFrom(children, 1)
          tree == exportDraft.content
      IN /\ Len(pos) = Len(template)
         /\ \A i \in 1..Len(template) :
              template[i].id \in Range(NodeIds(tree)) =>
                \E j \in 1..Len(tree) :
                  /\ NodeId(tree[j]) = template[i].id
                  /\ SubSeq(children, pos[i] + 1, pos[i] + Len(ExportedFor(tree[j])))
                       = ExportedFor(tree[j])

\* ------------------------------------------------------------------------
\* validateGrounding: the numbers of a generated text against the numbers
\* of its source text
\* ------------------------------------------------------------------------
MaxWords == 2

\* the end (exclusive) of the match of /\d+(\.\d+)?%?/ that begins at the
\* digit at position i
NumberEndAt(t, i) ==
    LET j == SkipDigits(t, i)
        k == IF j + 1 <= Len(t) /\ t[j] = "." /\ t[j + 1] \in Range(Digits)
             THEN SkipDigits(t, j + 1) ELSE j
    IN IF k <= Len(t) /\ t[k] = "%" THEN k + 1 ELSE k

\* text.match(/\d+(\.\d+)?%?/g) || [] from position i on
RECURSIVE NumbersFrom(_, _)
NumbersFrom(t, i) ==
    IF i > Len(t) THEN <<>>
    ELSE IF t[i] \in Range(Digits)
         THEN <<SubSeq(t, i, NumberEndAt(t, i) - 1)>> \o NumbersFrom(t, NumberEndAt(t, i))
         ELSE NumbersFrom(t, i + 1)

Numbers(t) == NumbersFrom(t, 1)

\* ['1', '2', '3', '4', '5', '10', '100']
CommonNumbers ==
    {Chars("1"), Chars("2"), Chars("3"), Chars("4"), Chars("5"), Chars("10"), Chars("100")}

WarningFor(num) ==
    Chars("Number \"") \o num \o Chars("\" in generated content may not be in source")

\* the loop over generatedNumbers
RECURSIVE GroundingWarnings(_, _)
GroundingWarnings(generatedNumbers, sourceNumbers) ==
    IF Len(generatedNumbers) = 0 THEN <<>>
    ELSE LET num == Head(generatedNumbers)
             rest == GroundingWarnings(Tail(generatedNumbers), sourceNumbers)
         IN IF num \in CommonNumbers THEN rest
            ELSE IF num \notin Range(sourceNumbers) THEN <<WarningFor(num)>> \o rest
            ELSE rest

validateGrounding(generatedContent, sourceContent) ==
    LET warnings == GroundingWarnings(Numbers(generatedContent), Numbers(sourceContent))
    IN [isGrounded |-> Len(warnings) = 0, warnings |-> warnings]

\* pieces of text with and without numbers
GroundPieces ==
    {Chars("42"), Chars("42%"), Chars("4.5"), Chars("5"), Chars("100"),
     Chars("in 2019, 3.")}

RECURSIVE JoinWords(_)
JoinWords(pieces) ==
    IF Len(pieces) = 0 THEN <<>>
    ELSE IF Len(pieces) = 1 THEN pieces[1]
    ELSE pieces[1] \o <<" ">> \o JoinWords(Tail(pieces))

GroundTexts == {JoinWords(p) : p \in UNION {[1..n -> GroundPieces] : n \in 0..MaxWords}}

InitGround ==
    /\ \E g \in GroundTexts : \E s \in GroundTexts :
         arg = [generatedContent |-> g, sourceContent |-> s]
    /\ ret = <<>>
    /\ fpc = "input"

ValidateGrounding ==
    /\ fpc = "input"
    /\ ret' = validateGrounding(arg.generatedContent, arg.sourceContent)
    /\ fpc' = "validated"
    /\ UNCHANGED <<hvars, dvars, evars, arg>>

InitG == InitGround /\ IdleDraft /\ IdleHierarchy /\ IdleExport

NextG == ValidateGrounding

SpecGround == InitG /\ [][NextG]_vars

\* the number a token stands for: the token without its trailing '%'
NumberOf(tok) ==
    IF Len(tok) > 0 /\ tok[Len(tok)] = "%" THEN SubSeq(tok, 1, Len(tok) - 1) ELSE tok

\* the tokens of the generated text that are due a warning: not one of the
\* common numbers, and no token of the source stands for the same number
RECURSIVE DueWarning(_, _)
DueWarning(generatedNumbers, sourceNumbers) ==
    IF Len(generatedNumbers) = 0 THEN <<>>
    ELSE LET num == Head(generatedNumbers)
             rest == DueWarning(Tail(generatedNumbers), sourceNumbers)
         IN IF /\ num \notin CommonNumbers
               /\ \A i \in 1..Len(sourceNumbers) : NumberOf(sourceNumbers[i]) # NumberOf(num)
            THEN <<num>> \o rest
            ELSE rest

\* C24: validateGrounding warns about a numeric token of the generated text
\* if and only if the token is not one of 1, 2, 3, 4, 5, 10, 100 and the
\* same number does not occur among the numeric tokens of the source (a
\* generated 42% is present when the source has 42), and isGrounded is true
\* exactly when there is no warning.
C24_WarnsForAbsentNumbers ==
    fpc = "validated" =>
      LET due == DueWarning(Numbers(arg.generatedContent), Numbers(arg.sourceContent))
      IN /\ ret.warnings = [i \in 1..Len(due) |-> WarningFor(due[i])]
         /\ ret.isGrounded = (Len(ret.warnings) = 0)

\* the second half alone: isGrounded is true exactly when no warning was
\* emitted, and every warning names a token of the generated text that is
\* not a common number and is not, as written, a token of the source
C24_GroundedIffNoWarnings ==
    fpc = "validated" =>
      /\ ret.isGrounded = (Len(ret.warnings) = 0)
      /\ \A i \in 1..Len(ret.warnings) :
           \E k \in 1..Len(Numbers(arg.generatedContent)) :
             LET num == Numbers(arg.generatedContent)[k]
             IN /\ ret.warnings[i] = WarningFor(num)
                /\ num \notin CommonNumbers
                /\ num \notin Range(Numbers(arg.sourceContent))

\* ------------------------------------------------------------------------
\* One saveDraftContent against one updateDraftSection (SpecRace)
\* ------------------------------------------------------------------------
\* caller c saved and caller d upserted, both updates were applied
SaveAndUpsert(c, d) ==
    /\ c # d
    /\ pc[c] = "done" /\ pc[d] = "done"
    /\ req[c].op = "save" /\ req[c].ok
    /\ IsUpsert(req[d]) /\ req[d].ok

\* the row the two callers found (each invocation advances the clock once)
StartRow == CHOOSE row \in RaceRows : row.now = now - 2

\* the invocations run whole on a row
SaveOn(draft, call) == SaveUpdate(draft, call.tree, call.at)

UpsertOn(draft, call) ==
    UpsertUpdate(draft, call.id, TitleOf(call.id), call.text, call.sourceRefs,
                 call.warnings, call.at)

\* C27: for every interleaving of the read and write steps of one
\* saveDraftContent and one updateDraftSection on the same draft, the tree
\* and the provenance map stored after both equal the result of running
\* the two invocations in one of the two serial orders.
C27_SaveAndUpsertSerializable ==
    \A c, d \in Callers :
      SaveAndUpsert(c, d) =>
        \/ Before = UpsertOn(SaveOn(StartRow, req[c]), req[d])
        \/ Before = SaveOn(UpsertOn(StartRow, req[d]), req[c])

\* the interleavings in which the second invocation read the row after the
\* first had written: the stored row is the result of that serial order
C27_SequencedIsSerial ==
    \A c, d \in Callers :
      SaveAndUpsert(c, d) =>
        /\ req[d].readV >= req[c].wroteV =>
             Before = UpsertOn(SaveOn(StartRow, req[c]), req[d])
        /\ req[c].readV >= req[d].wroteV =>
             Before = SaveOn(UpsertOn(StartRow, req[d]), req[c])

\* ------------------------------------------------------------------------
\* geminiClient.generateContent: one generation request, retried by
\* retryWithBackoff
\* ------------------------------------------------------------------------
MaxAttempts == 3

MAX_INPUT_TOKENS == 900000

\* Math.ceil(text.length / 4); 0 for an empty text
estimateTokens(length) == IF length = 0 THEN 0 ELSE (length + 3) \div 4

fitsInContext(length) == estimateTokens(length) < MAX_INPUT_TOKENS

\* an Error: its message and its status (0 when it has none)
Error(message, st) == [message |-> Chars(message), status |-> st]

NoError == [message |-> <<>>, status |-> -1]

\* what one call of geminiModel.generateContent can bring: a response with
\* a text or with none, or an error of the service
ServiceOutcomes ==
    {[text |-> Chars("Generated.")],
     [text |-> <<>>],
     [error |-> Error("Candidate was blocked due to SAFETY", 0)],
     [error |-> Error("Candidate was blocked due to RECITATION", 0)],
     [error |-> Error("Too Many Requests", 429)],
     [error |-> Error("Internal error", 500)],
     [error |-> Error("Service Unavailable", 503)],
     [error |-> Error("fetch failed", 0)]}

\* the catch block of generate: the error it throws for the error caught
Rethrown(error) ==
    IF Includes(error.message, Chars("SAFETY"))
    THEN Error("Content was blocked by safety filters", 0)
    ELSE IF Includes(error.message, Chars("RECITATION"))
    THEN Error("Response blocked due to recitation concerns", 0)
    ELSE IF error.status = 429 THEN error
    ELSE IF error.status = 503 \/ error.status = 500 THEN error
    ELSE [message |-> Chars("Gemini API error: ") \o error.message, status |-> 0]

\* generate: the text returned, or the error thrown (the error for the
\* empty text is thrown inside the try block and passes the catch block)
generate(outcome) ==
    IF "text" \in DOMAIN outcome
    THEN IF Len(outcome.text) = 0
         THEN [ok |-> FALSE, error |-> Rethrown(Error("Empty response from Gemini", 0))]
         ELSE [ok |-> TRUE, text |-> outcome.text]
    ELSE [ok |-> FALSE, error |-> Rethrown(outcome.error)]

GenerateContentInput ==
    /\ \E n \in 0..MaxAttempts, length \in {0, 40, 3599996, 3599997} :
         arg = [maxRetries |-> n, promptLength |-> length]
    /\ ret = <<>>
    /\ fpc = "input"

\* generateContent up to the call of retryWithBackoff
StartGenerateContent ==
    /\ fpc = "input"
    /\ IF ~fitsInContext(arg.promptLength)
       THEN /\ ret' = [calls |-> <<>>, ok |-> FALSE,
                       error |-> Error("Prompt exceeds maximum context length", 0)]
            /\ fpc' = "done"
       ELSE /\ ret' = [calls |-> <<>>, attempt |-> 0, lastError |-> NoError]
            /\ fpc' = "retrying"
    /\ UNCHANGED <<hvars, dvars, evars, arg>>

\* retryWithBackoff: one round of the loop with
\* the outcome of the service call, or the throw after the loop
RetryWithBackoff(outcome) ==
    /\ fpc = "retrying"
    /\ IF ret.attempt < arg.maxRetries
       THEN LET result == generate(outcome)
                calls == Append(ret.calls, outcome)
            IN IF result.ok
               THEN /\ ret' = [calls |-> calls, ok |-> TRUE, text |-> result.text]
                    /\ fpc' = "done"
               ELSE /\ ret' = [calls |-> calls, attempt |-> ret.attempt + 1,
                               lastError |-> result.error]
                    /\ fpc' = "retrying"
       ELSE /\ ret' = [calls |-> ret.calls, ok |-> FALSE, error |-> ret.lastError]
            /\ fpc' = "done"
    /\ UNCHANGED <<hvars, dvars, evars, arg>>

InitGen == GenerateContentInput /\ IdleDraft /\ IdleHierarchy /\ IdleExport

NextGen == StartGenerateContent \/ \E outcome \in ServiceOutcomes : RetryWithBackoff(outcome)

SpecGenerate == InitGen /\ [][NextGen]_vars

\* a rate-limit or service error of the service
IsRetryable(outcome) ==
    /\ "error" \in DOMAIN outcome
    /\ outcome.error.status \in {429, 500, 503}

IsText(outcome) == "text" \in DOMAIN outcome /\ Len(outcome.text) > 0

\* the attempts are at most maxRetries; a text is returned when the last
\* call brought one and it is that text; otherwise the error thrown is the
\* one generate threw for the last call
C28_AttemptsAndResult ==
    /\ fpc \in {"retrying", "done"} => Len(ret.calls) <= arg.maxRetries
    /\ fpc = "done" /\ fitsInContext(arg.promptLength) =>
         /\ \A i \in 1..(Len(ret.calls) - 1) : ~IsText(ret.calls[i])
         /\ ret.ok = (Len(ret.calls) > 0 /\ IsText(ret.calls[Len(ret.calls)]))
         /\ ret.ok => ret.text = ret.calls[Len(ret.calls)].text
         /\ ~ret.ok /\ Len(ret.calls) > 0 =>
              ret.error = generate(ret.calls[Len(ret.calls)]).error

\* C28: generateContent calls the generation service again only after a
\* rate-limit (429) or service (500/503) error, and makes no further
\* attempt after a safety block, a recitation block, an empty response or
\* an unknown error; in every case it makes at most maxRetries attempts,
\* returns the first successful text and otherwise throws the last error.
C28_RetriesOnlyTransientErrors ==
    /\ fpc \in {"retrying", "done"} =>
         \A i \in 1..(Len(ret.calls) - 1) : IsRetryable(ret.calls[i])
    /\ C28_AttemptsAndResult

\* ------------------------------------------------------------------------
\* SpecExports: exportProject against the status of the project and the
\* presence of a draft.  arg holds whether the project has a draft, ret the
\* exports table and the log of the invocations.
\* ------------------------------------------------------------------------
\* the values projects.status takes: as created, while the generation run
\* is on, after it, after an export
ProjectStatuses == {"draft", "generating", "ready", "exported"}

InitExports ==
    /\ template = ProjectTemplate
    /\ exportDraft = <<>>
    /\ children = <<>>
    /\ epc = "input"
    /\ status \in ProjectStatuses
    /\ \E hasDraft \in BOOLEAN : arg = [hasDraft |-> hasDraft]
    /\ ret = [exports |-> <<>>, log |-> <<>>]
    /\ fpc = "running"

\* updateProjectStatus(projectId, status)
UpdateProjectStatus(s) ==
    /\ Len(ret.log) < MaxCalls
    /\ status' = s
    /\ ret' = [ret EXCEPT !.log = Append(@, [op |-> "status"])]
    /\ UNCHANGED <<template, exportDraft, children, epc, arg, fpc>>

\* createDraft(projectId)
CreateDraft ==
    /\ Len(ret.log) < MaxCalls
    /\ ~arg.hasDraft
    /\ arg' = [hasDraft |-> TRUE]
    /\ ret' = [ret EXCEPT !.log = Append(@, [op |-> "draft"])]
    /\ UNCHANGED <<evars, fpc>>

\* exportProject(projectId, userId) on a project that may have no draft:
\* the record is inserted on the path that ends with the written document
ExportProjectOf(projectId, storeOk) ==
    /\ Len(ret.log) < MaxCalls
    /\ IF projectId = "project1" /\ status = "ready" /\ ~arg.hasDraft
       THEN /\ epc' = "No draft found for this project"
            /\ UNCHANGED <<template, exportDraft, children, status>>
       ELSE ExportProject(projectId, storeOk)
    /\ LET exports == IF epc' = "written"
                      THEN Append(ret.exports, [project_id |-> projectId, format |-> "docx"])
                      ELSE ret.exports
       IN ret' = [exports |-> exports,
                  log |-> Append(ret.log,
                            [op |-> "export", projectId |-> projectId,
                             before |-> status, hadDraft |-> arg.hasDraft,
                             outcome |-> epc', after |-> status',
                             recordsBefore |-> Len(ret.exports),
                             records |-> Len(exports)])]
    /\ UNCHANGED <<arg, fpc>>

InitEx == InitExports /\ IdleDraft /\ IdleHierarchy

NextEx ==
    \/ \E s \in ProjectStatuses : UpdateProjectStatus(s) /\ UNCHANGED <<hvars, dvars>>
    \/ CreateDraft /\ UNCHANGED <<hvars, dvars>>
    \/ \E projectId \in ProjectIds, storeOk \in BOOLEAN :
         ExportProjectOf(projectId, storeOk) /\ UNCHANGED <<hvars, dvars>>

SpecExports == InitEx /\ [][NextEx]_vars

====
